---- MODULE Spec2Model ----
(***************************************************************************)
(* Reverse-verification flow of the WhatsADK gateway.                      *)
(*                                                                         *)
(* verification.Handler.Handle (internal/verification/handler.go) together *)
(* with the token inspector (auth.IsVerificationToken,                     *)
(* auth.VerifyVerificationToken), the key registry and the RS256 issuer.   *)
(*                                                                         *)
(* Strings that the code transforms are modelled as sequences so that the  *)
(* transformation is computed: a phone number is a sequence of one-letter  *)
(* strings, a URL is the sequence of the pieces it was concatenated from.  *)
(* A signed token is a record: its header algorithm, the key whose private *)
(* half produced the signature segment, and its payload claims.            *)
(***************************************************************************)
EXTENDS Integers, Sequences, FiniteSets, TLC

\* ---------------------------------------------------------------- bounds

\* The clock runs over 0..MaxTime.
MaxTime == 2

\* TTL of gateway-issued assertions, in clock ticks.
ttl == 2

\* ------------------------------------------------------------ vocabulary

Digits == {"0", "1", "2", "3", "4", "5", "6", "7", "8", "9"}

\* A claim that the JSON payload does not carry.
Absent == "<absent>"

\* jwt.RegisteredClaims.ExpiresAt == nil
NoExp == 0 - 1

\* The exp claims inbound tokens carry: every instant the clock passes
\* through, so that each is once in the future, once now and once past.
TokenExps == 1..(MaxTime - 1)

\* Raw sender identities as delivered by the channel.
SenderPhones == { <<"9", "1">>, <<"+", "9", "9">>, <<"1", "2">> }

\* Raw values of the mobile claim; <<>> is the empty string.
MobileClaims == { <<>>, <<"+", "9", "1">>, <<"1", "2">> }

\* verification.devops_numbers as written in the configuration file.
DevOpsConfigs == { <<>>, << <<"9", "-", "9">> >> }

\* Signing algorithms a token header may declare (all are registered with
\* the jwt library).
Algs == {"RS256", "RS384", "HS256", "none"}

\* Algorithms implemented by *jwt.SigningMethodRSA.
SigningMethodRSA == {"RS256", "RS384", "RS512"}

\* Key pairs.  kA and kB belong to tenants, kG is the gateway's own key.
TenantKeys == {"kA", "kB"}
GatewayKey == "kG"

\* What the signature segment of an inbound token is: a valid RSA signature
\* made with the named private key, or bytes that verify under no key.
BadSig == "bad"
Sigs == TenantKeys \cup {BadSig}

\* verification.apps of the configuration: app name -> public key.
Apps == [appA |-> "kA", appB |-> "kB"]

AppNames == {"", "appA", "appB", "appZ"}

ChallengeIDs == {"", "c1", "c2"}

\* callback_base_url of each app in the documented configuration.
CallbackBaseURL == [appA |-> "https://a.example/wa", appB |-> "https://b.example/wa"]

\* Values of the callback_url claim; <<>> is the empty / missing claim.
CallbackURLs ==
    { <<>>,
      <<"https://a.example/wa", "/callback?challenge_id=", "c1">>,
      <<"https://evil.example/steal">> }

\* Whitespace around the token text in the chat message.
Pads == {"", "\n", " "}

\* config.VerificationMessages
\* The reply texts with the generic error text left empty.
messages_EmptyError ==
    [Success |-> "success", Expired |-> "expired",
     PhoneMismatch |-> "phone_mismatch", Blacklisted |-> "blacklisted",
     Error |-> ""]

messages ==
    [Success |-> "success", Expired |-> "expired",
     PhoneMismatch |-> "phone_mismatch", Blacklisted |-> "blacklisted",
     Error |-> "error"]

issuer == "whatsadk-gateway"

\* HTTP status codes the callback endpoint answers with.
Statuses == {200, 302, 304, 404, 500}

\* Where a redirecting callback endpoint sends the client.
RedirectLocation == <<"https://elsewhere.example/">>

\* ------------------------------------------------------------- inbound text

\* A chat message that is not a compact JWT ("Hello world").
PlainText ==
    [kind |-> "text", pad |-> "", alg |-> "none", sig |-> BadSig,
     mobile |-> <<>>, app_name |-> "", callback_url |-> <<>>,
     challenge_id |-> "", exp |-> NoExp]

\* Compact JWTs (header.payload.signature), possibly surrounded by
\* whitespace: "\n" stands for newlines, " " for blanks.
JWTBodies ==
    [kind : {"jwt"}, pad : Pads, alg : Algs, sig : Sigs,
     mobile : MobileClaims, app_name : AppNames,
     callback_url : CallbackURLs, challenge_id : ChallengeIDs,
     exp : {NoExp} \cup TokenExps]

Bodies == {PlainText} \cup JWTBodies

\* --------------------------------------------------------- pure functions

\* The normalization that keeps the leading plus sign of a number.
normalizePhone_KeepsPlus(phone) ==
    LET Kept(r) == r \in Digits \cup {"+"}
    IN  SelectSeq(phone, Kept)

\* handler.go normalizePhone: keep the digits, drop every other rune.
normalizePhone(phone) ==
    LET IsDigit(r) == r \in Digits
    IN  SelectSeq(phone, IsDigit)

\* The nil *VerificationClaims.
NilClaims ==
    [nil |-> TRUE, Mobile |-> <<>>, AppName |-> "", CallbackURL |-> <<>>,
     ChallengeID |-> "", ExpiresAt |-> NoExp]

\* VerificationClaims as decoded from the payload segment.
VerificationClaims(raw) ==
    [nil |-> FALSE, Mobile |-> raw.mobile, AppName |-> raw.app_name,
     CallbackURL |-> raw.callback_url, ChallengeID |-> raw.challenge_id,
     ExpiresAt |-> raw.exp]

\* auth.IsVerificationToken: trim, require the "eyJ" prefix and three
\* segments, decode without verifying, require mobile, app_name and
\* callback_url.
IsVerificationToken(raw) ==
    IF raw.kind # "jwt"
    THEN NilClaims
    ELSE LET claims == VerificationClaims(raw)
         IN  IF claims.Mobile = <<>> \/ claims.AppName = "" \/ claims.CallbackURL = <<>>
             THEN NilClaims
             ELSE claims

\* GetAppPublicKey that answers for an unknown app as if it had a key.
GetAppPublicKey_NoUnknownCheck(appKeys, appName) ==
    IF appName \in DOMAIN appKeys
    THEN [err |-> FALSE, key |-> appKeys[appName]]
    ELSE [err |-> FALSE, key |-> BadSig]

\* GetAppPublicKey that knows no app.
GetAppPublicKey_AlwaysUnknown(appKeys, appName) ==
    [err |-> TRUE, key |-> BadSig]

\* KeyRegistry.GetAppPublicKey
GetAppPublicKey(appKeys, appName) ==
    IF appName \in DOMAIN appKeys
    THEN [err |-> FALSE, key |-> appKeys[appName]]
    ELSE [err |-> TRUE, key |-> BadSig]

\* VerifyVerificationToken whose key function hands out the key that made
\* the signature instead of the tenant's.
VerifyVerificationToken_AnyKey(raw, appKey, t) ==
    LET claims == VerificationClaims(raw)
    IN  IF raw.kind # "jwt" \/ raw.pad = " "
        THEN [err |-> "malformed", claims |-> NilClaims]
        ELSE IF raw.alg \notin SigningMethodRSA
        THEN [err |-> "unverifiable", claims |-> NilClaims]
        ELSE IF raw.sig = BadSig
        THEN [err |-> "signature_invalid", claims |-> NilClaims]
        ELSE IF raw.exp # NoExp /\ ~(t < raw.exp)
        THEN [err |-> "expired", claims |-> NilClaims]
        ELSE IF claims.Mobile = <<>> \/ claims.AppName = ""
                \/ claims.CallbackURL = <<>> \/ claims.ChallengeID = ""
        THEN [err |-> "missing_claims", claims |-> NilClaims]
        ELSE [err |-> "", claims |-> claims]

\* VerifyVerificationToken parsing with claims validation switched off.
VerifyVerificationToken_NoExpiry(raw, appKey, t) ==
    LET claims == VerificationClaims(raw)
    IN  IF raw.kind # "jwt" \/ raw.pad = " "
        THEN [err |-> "malformed", claims |-> NilClaims]
        ELSE IF raw.alg \notin SigningMethodRSA
        THEN [err |-> "unverifiable", claims |-> NilClaims]
        ELSE IF raw.sig # appKey
        THEN [err |-> "signature_invalid", claims |-> NilClaims]
        ELSE IF claims.Mobile = <<>> \/ claims.AppName = ""
                \/ claims.CallbackURL = <<>> \/ claims.ChallengeID = ""
        THEN [err |-> "missing_claims", claims |-> NilClaims]
        ELSE [err |-> "", claims |-> claims]

\* auth.VerifyVerificationToken at clock reading t.  The text is parsed as
\* given (not trimmed): blanks around it break the base64 decoding of the
\* header segment, newlines are skipped by the decoder.  Then the key
\* function pins the method family, the signature is checked under appKey,
\* exp (when present) must be after t, and the four claims must be set.
VerifyVerificationToken(raw, appKey, t) ==
    LET claims == VerificationClaims(raw)
    IN  IF raw.kind # "jwt" \/ raw.pad = " "
        THEN [err |-> "malformed", claims |-> NilClaims]
        ELSE IF raw.alg \notin SigningMethodRSA
        THEN [err |-> "unverifiable", claims |-> NilClaims]
        ELSE IF raw.sig # appKey
        THEN [err |-> "signature_invalid", claims |-> NilClaims]
        ELSE IF raw.exp # NoExp /\ ~(t < raw.exp)
        THEN [err |-> "expired", claims |-> NilClaims]
        ELSE IF claims.Mobile = <<>> \/ claims.AppName = ""
                \/ claims.CallbackURL = <<>> \/ claims.ChallengeID = ""
        THEN [err |-> "missing_claims", claims |-> NilClaims]
        ELSE [err |-> "", claims |-> claims]

\* The generator that names the first tenant in every callback token.
TokenWithAudience_FixedAudience(userID, audience, t) ==
    [alg |-> "RS256", sig |-> GatewayKey,
     payload |-> [user_id |-> userID, channel |-> "whatsapp",
                  iss |-> issuer, aud |-> <<"appA">>,
                  iat |-> t, exp |-> t + ttl]]

\* JWTGenerator.TokenWithAudience at clock reading t: an RS256 token signed
\* with the gateway key carrying user_id, channel, iss, aud, iat and exp.
TokenWithAudience(userID, audience, t) ==
    [alg |-> "RS256", sig |-> GatewayKey,
     payload |-> [user_id |-> userID, channel |-> "whatsapp",
                  iss |-> issuer, aud |-> <<audience>>,
                  iat |-> t, exp |-> t + ttl]]

\* The value of a named claim of an issued token, Absent when the payload
\* has no such member.
GetClaim(token, name) ==
    IF name \in DOMAIN token.payload THEN token.payload[name] ELSE Absent

\* The token that is not there (signing failed or was never attempted).
NoToken == [alg |-> "none", sig |-> BadSig, payload |-> [none |-> TRUE]]

\* ------------------------------------------------------------ collaborators

\* What httpClient.Do meets on the network.  neterr: Do returns an error
\* (connection failure, timeout, cancelled context).  Otherwise chain lists
\* the status codes received: one response, or a redirect that the client
\* followed and the response of the next hop.
HTTPOutcomes ==
    {[neterr |-> TRUE, chain |-> <<>>]}
    \cup {[neterr |-> FALSE, chain |-> <<s>>] : s \in Statuses}
    \cup {[neterr |-> FALSE, chain |-> <<302, s>>] : s \in {200, 500}}

\* Placeholder of a collaborator that was not called.
Unused == "unused"
UnusedHTTP == [neterr |-> FALSE, chain |-> <<>>]

\* One HTTP request.
Request(method, url, authorization) ==
    [method |-> method, url |-> url, authorization |-> authorization,
     body |-> <<>>]

\* postCallback that sends the request a second time when the first fails.
postCallback_RetryOnce(callbackURL, jwtToken, httpOut) ==
    LET req  == Request("POST", callbackURL, jwtToken)
        hops == IF httpOut.neterr THEN 0 ELSE Len(httpOut.chain) - 1
        wire == <<req>> \o [i \in 1..hops |-> Request("GET", RedirectLocation, jwtToken)]
        StatusCode == IF httpOut.neterr THEN 0 ELSE httpOut.chain[Len(httpOut.chain)]
    IN  IF httpOut.neterr
        THEN [err |-> TRUE, req |-> req, wire |-> wire \o <<req>>]
        ELSE IF StatusCode >= 400
        THEN [err |-> TRUE, req |-> req, wire |-> wire \o <<req>>]
        ELSE [err |-> FALSE, req |-> req, wire |-> wire]

\* postCallback that takes only server errors (status >= 500) for failures.
postCallback_Only5xx(callbackURL, jwtToken, httpOut) ==
    LET req  == Request("POST", callbackURL, jwtToken)
        hops == IF httpOut.neterr THEN 0 ELSE Len(httpOut.chain) - 1
        wire == <<req>> \o [i \in 1..hops |-> Request("GET", RedirectLocation, jwtToken)]
        StatusCode == IF httpOut.neterr THEN 0 ELSE httpOut.chain[Len(httpOut.chain)]
    IN  IF httpOut.neterr
        THEN [err |-> TRUE, req |-> req, wire |-> wire]
        ELSE IF StatusCode >= 500
        THEN [err |-> TRUE, req |-> req, wire |-> wire]
        ELSE [err |-> FALSE, req |-> req, wire |-> wire]

\* handler.go postCallback: POST with a Bearer header and no body; an error
\* of Do or a status >= 400 is a failure.  wire lists every request sent.
postCallback(callbackURL, jwtToken, httpOut) ==
    LET req  == Request("POST", callbackURL, jwtToken)
        hops == IF httpOut.neterr THEN 0 ELSE Len(httpOut.chain) - 1
        wire == <<req>> \o [i \in 1..hops |-> Request("GET", RedirectLocation, jwtToken)]
        StatusCode == IF httpOut.neterr THEN 0 ELSE httpOut.chain[Len(httpOut.chain)]
    IN  IF httpOut.neterr
        THEN [err |-> TRUE, req |-> req, wire |-> wire]
        ELSE IF StatusCode >= 400
        THEN [err |-> TRUE, req |-> req, wire |-> wire]
        ELSE [err |-> FALSE, req |-> req, wire |-> wire]

\* The blacklist gate that fails open: a failed lookup lets the flow go on.
BlacklistGate_ErrorPasses(configured, answer) ==
    IF ~configured THEN ""
    ELSE IF answer = "blocked" THEN messages.Blacklisted
    ELSE ""

\* The blacklist gate that fails when no collaborator is configured.
BlacklistGate_AbsentFails(configured, answer) ==
    IF ~configured THEN messages.Error
    ELSE IF answer = "error" THEN messages.Error
    ELSE IF answer = "blocked" THEN messages.Blacklisted
    ELSE ""

\* The blacklist gate that only logs a blocked sender.
BlacklistGate_BlockedPasses(configured, answer) ==
    IF ~configured THEN ""
    ELSE IF answer = "error" THEN messages.Error
    ELSE ""

\* handler.go lines 60-70: the blacklist gate.  "" lets the flow continue.
BlacklistGate(configured, answer) ==
    IF ~configured THEN ""
    ELSE IF answer = "error" THEN messages.Error
    ELSE IF answer = "blocked" THEN messages.Blacklisted
    ELSE ""

\* The phone-match gate with the override granted to every sender.
PhoneGate_EveryoneDevOps(senderNormalized, mobileNormalized, devOps) ==
    IF senderNormalized # mobileNormalized /\ FALSE
    THEN messages.PhoneMismatch
    ELSE ""

\* handler.go lines 84-97: the phone-match gate with the devops override.
PhoneGate(senderNormalized, mobileNormalized, devOps) ==
    IF senderNormalized # mobileNormalized /\ senderNormalized \notin devOps
    THEN messages.PhoneMismatch
    ELSE ""

\* The phone Handle hands to BlacklistStore.IsBlacklisted: the sender,
\* normalized.
BlacklistKey(senderPhone) == normalizePhone(senderPhone)

\* verification.NewHandler: the devops numbers are normalized once.
NewDevOps(cfgNumbers) ==
    {normalizePhone(cfgNumbers[i]) : i \in 1..Len(cfgNumbers)}

\* The outcome of one Handle call: the reply, the callbacks it dispatched,
\* every request that went on the wire, the collaborators it called in
\* order, the error of the full verification and the token it signed.
Outcome(reply, trace, verifyErr, jwt, callbacks, wire) ==
    [reply |-> reply, trace |-> trace, verifyErr |-> verifyErr, jwt |-> jwt,
     callbacks |-> callbacks, wire |-> wire]

\* Handle that resolves the tenant before it asks the blacklist.
Handle_LookupFirst(h, senderPhone, messageBody, t, env) ==
    LET claims == IsVerificationToken(messageBody)
        senderNormalized == normalizePhone(senderPhone)
        gate == BlacklistGate(h.blacklist, env.bl)
        tr1 == <<"classify", "lookup">>
        appKey == GetAppPublicKey(h.keys, claims.AppName)
        tr2 == IF h.blacklist THEN Append(tr1, "blacklist") ELSE tr1
        tr2b == tr2
        v == VerifyVerificationToken(messageBody, appKey.key, t)
        verified == v.claims
        tr3 == Append(tr2b, "verify")
        mobileNormalized == normalizePhone(verified.Mobile)
        callbackJWT == TokenWithAudience(senderNormalized, verified.AppName, t)
        tr4 == Append(tr3, "sign")
        post == postCallback(verified.CallbackURL, callbackJWT, env.http)
        tr5 == Append(tr4, "post")
    IN  IF claims.nil
        THEN Outcome("", <<"classify">>, Unused, NoToken, <<>>, <<>>)
        ELSE IF appKey.err
        THEN Outcome(messages.Error, tr1, Unused, NoToken, <<>>, <<>>)
        ELSE IF gate # ""
        THEN Outcome(gate, tr2, Unused, NoToken, <<>>, <<>>)
        ELSE IF v.err # ""
        THEN Outcome(messages.Expired, tr3, v.err, NoToken, <<>>, <<>>)
        ELSE IF PhoneGate(senderNormalized, mobileNormalized, h.devOpsNumbers) # ""
        THEN Outcome(messages.PhoneMismatch, tr3, "", NoToken, <<>>, <<>>)
        ELSE IF env.sign # "ok"
        THEN Outcome(messages.Error, tr4, "", NoToken, <<>>, <<>>)
        ELSE IF post.err
        THEN Outcome(messages.Error, tr5, "", callbackJWT, <<post.req>>, post.wire)
        ELSE Outcome(messages.Success, tr5, "", callbackJWT, <<post.req>>, post.wire)

\* Handle that lets a devops sender through a failed verification.
Handle_DevOpsSkipsVerify(h, senderPhone, messageBody, t, env) ==
    LET claims == IsVerificationToken(messageBody)
        senderNormalized == normalizePhone(senderPhone)
        gate == BlacklistGate(h.blacklist, env.bl)
        tr1 == IF h.blacklist THEN <<"classify", "blacklist">> ELSE <<"classify">>
        appKey == GetAppPublicKey(h.keys, claims.AppName)
        tr2 == Append(tr1, "lookup")
        tr2b == tr2
        v == VerifyVerificationToken(messageBody, appKey.key, t)
        verified == v.claims
        tr3 == Append(tr2b, "verify")
        mobileNormalized == normalizePhone(verified.Mobile)
        callbackJWT == TokenWithAudience(senderNormalized, verified.AppName, t)
        tr4 == Append(tr3, "sign")
        post == postCallback(verified.CallbackURL, callbackJWT, env.http)
        tr5 == Append(tr4, "post")
    IN  IF claims.nil
        THEN Outcome("", <<"classify">>, Unused, NoToken, <<>>, <<>>)
        ELSE IF gate # ""
        THEN Outcome(gate, tr1, Unused, NoToken, <<>>, <<>>)
        ELSE IF appKey.err
        THEN Outcome(messages.Error, tr2, Unused, NoToken, <<>>, <<>>)
        ELSE IF v.err # "" /\ senderNormalized \notin h.devOpsNumbers
        THEN Outcome(messages.Expired, tr3, v.err, NoToken, <<>>, <<>>)
        ELSE IF PhoneGate(senderNormalized, mobileNormalized, h.devOpsNumbers) # ""
        THEN Outcome(messages.PhoneMismatch, tr3, "", NoToken, <<>>, <<>>)
        ELSE IF env.sign # "ok"
        THEN Outcome(messages.Error, tr4, "", NoToken, <<>>, <<>>)
        ELSE IF post.err
        THEN Outcome(messages.Error, tr5, "", callbackJWT, <<post.req>>, post.wire)
        ELSE Outcome(messages.Success, tr5, "", callbackJWT, <<post.req>>, post.wire)

\* verification.Handler.Handle.  h is the handler (keys, devOpsNumbers,
\* blacklist), t the clock reading, env what the collaborators answer:
\* env.bl the blacklist lookup, env.sign the signing, env.http the network.
Handle(h, senderPhone, messageBody, t, env) ==
    LET claims == IsVerificationToken(messageBody)
        senderNormalized == normalizePhone(senderPhone)
        gate == BlacklistGate(h.blacklist, env.bl)
        tr1 == IF h.blacklist THEN <<"classify", "blacklist">> ELSE <<"classify">>
        appKey == GetAppPublicKey(h.keys, claims.AppName)
        tr2 == Append(tr1, "lookup")
        v == VerifyVerificationToken(messageBody, appKey.key, t)
        verified == v.claims
        tr3 == Append(tr2, "verify")
        mobileNormalized == normalizePhone(verified.Mobile)
        callbackJWT == TokenWithAudience(senderNormalized, verified.AppName, t)
        tr4 == Append(tr3, "sign")
        post == postCallback(verified.CallbackURL, callbackJWT, env.http)
        tr5 == Append(tr4, "post")
    IN  IF claims.nil
        THEN Outcome("", <<"classify">>, Unused, NoToken, <<>>, <<>>)
        ELSE IF gate # ""
        THEN Outcome(gate, tr1, Unused, NoToken, <<>>, <<>>)
        ELSE IF appKey.err
        THEN Outcome(messages.Error, tr2, Unused, NoToken, <<>>, <<>>)
        ELSE IF v.err # ""
        THEN Outcome(messages.Expired, tr3, v.err, NoToken, <<>>, <<>>)
        ELSE IF PhoneGate(senderNormalized, mobileNormalized, h.devOpsNumbers) # ""
        THEN Outcome(messages.PhoneMismatch, tr3, "", NoToken, <<>>, <<>>)
        ELSE IF env.sign # "ok"
        THEN Outcome(messages.Error, tr4, "", NoToken, <<>>, <<>>)
        ELSE IF post.err
        THEN Outcome(messages.Error, tr5, "", callbackJWT, <<post.req>>, post.wire)
        ELSE Outcome(messages.Success, tr5, "", callbackJWT, <<post.req>>, post.wire)

\* What the collaborators can answer to one Handle call; a collaborator the
\* call does not reach answers Unused.
Envs(h, senderPhone, messageBody, t) ==
    LET pass == [bl |-> "clear", sign |-> "ok", http |-> [neterr |-> FALSE, chain |-> <<200>>]]
        full == Handle(h, senderPhone, messageBody, t, pass).trace
        Reaches(step) == \E i \in 1..Len(full) : full[i] = step
        none == [bl |-> Unused, sign |-> Unused, http |-> UnusedHTTP]
        blStop == IF Reaches("blacklist")
                  THEN {[none EXCEPT !.bl = a] : a \in {"blocked", "error"}}
                  ELSE {}
        blPass == IF Reaches("blacklist") THEN "clear" ELSE Unused
        signStop == IF Reaches("sign")
                    THEN {[none EXCEPT !.bl = blPass, !.sign = "fail"]}
                    ELSE {}
        done == IF Reaches("post")
                THEN {[bl |-> blPass, sign |-> "ok", http |-> o] : o \in HTTPOutcomes}
                ELSE IF Reaches("sign") THEN {}
                ELSE {[none EXCEPT !.bl = blPass]}
    IN  blStop \cup signStop \cup done

\* ------------------------------------------------------------ login command

\* Lengths the command pattern and the key check of OAuthHandler fix.
PubKeyChars == 43
NonceMinChars == 16
PubKeyBytes == 32

\* The sliding window of the rate limiter (one hour), in ticks of its clock.
Window == 2

\* auth.oauth.rate_limit: admissions per sender and window.
rateLimit == 2

\* The last instant of the rate limiter's clock.
MaxClock == 2

\* Texts are sequences of characters.
Lower ==
    <<"a", "b", "c", "d", "e", "f", "g", "h", "i", "j", "k", "l", "m",
      "n", "o", "p", "q", "r", "s", "t", "u", "v", "w", "x", "y", "z">>
Upper ==
    <<"A", "B", "C", "D", "E", "F", "G", "H", "I", "J", "K", "L", "M",
      "N", "O", "P", "Q", "R", "S", "T", "U", "V", "W", "X", "Y", "Z">>

\* The elements of a sequence.
Range(s) == {s[i] : i \in 1..Len(s)}

\* White space: what strings.TrimSpace strips and \s matches.
WhiteSpace == {" ", "\t", "\n", "\r"}

\* The character class [A-Za-z0-9_-] of authCommandRe.
Base64URLChars == Range(Lower) \cup Range(Upper) \cup Digits \cup {"_", "-"}

\* unicode.ToUpper on the characters of the texts.
UpperOf ==
    [c \in Range(Lower) \cup Range(Upper) \cup Digits
           \cup WhiteSpace \cup {"_", "-", "=", "!"} |->
        IF c \in Range(Lower)
        THEN Upper[CHOOSE k \in 1..Len(Lower) : Lower[k] = c]
        ELSE c]

\* strings.ToUpper.
ToUpper(s) == [i \in 1..Len(s) |-> UpperOf[s[i]]]

\* The text from its first character outside the set on.
RECURSIVE TrimLeft(_, _)
TrimLeft(s, cutset) ==
    IF s # <<>> /\ Head(s) \in cutset THEN TrimLeft(Tail(s), cutset) ELSE s

\* The text up to its last character outside the set.
RECURSIVE TrimRight(_, _)
TrimRight(s, cutset) ==
    IF s # <<>> /\ s[Len(s)] \in cutset
    THEN TrimRight(SubSeq(s, 1, Len(s) - 1), cutset)
    ELSE s

\* strings.TrimSpace.
TrimSpace(s) == TrimRight(TrimLeft(s, WhiteSpace), WhiteSpace)

\* strings.HasPrefix.
HasPrefix(s, prefix) ==
    /\ Len(s) >= Len(prefix)
    /\ SubSeq(s, 1, Len(prefix)) = prefix

\* n times the character c.
Rep(c, n) == [i \in 1..n |-> c]

\* The command keyword.
AUTH == <<"A", "U", "T", "H">>

\* IsAuthCommand with the prefix test on the keyword alone.
IsAuthCommand_KeywordOnly(text) ==
    HasPrefix(ToUpper(TrimSpace(text)), AUTH)

\* auth.IsAuthCommand.
IsAuthCommand(text) ==
    HasPrefix(ToUpper(TrimSpace(text)), AUTH \o <<" ">>)

\* The first position from i on whose character is not in the class
\* (Len(s) + 1 when there is none): where a greedy run of the class ends.
RECURSIVE RunEnd(_, _, _)
RunEnd(s, i, class) ==
    IF i <= Len(s) /\ s[i] \in class THEN RunEnd(s, i + 1, class) ELSE i

NoMatch == [nil |-> TRUE, key |-> <<>>, nonce |-> <<>>]

\* The command pattern without the minimum length of the nonce.
authCommandRe_AnyNonce(s) ==
    LET k1 == RunEnd(s, Len(AUTH) + 1, WhiteSpace)
        k2 == RunEnd(s, k1, Base64URLChars)
        k3 == IF k2 <= Len(s) /\ s[k2] = "=" THEN k2 + 1 ELSE k2
        k4 == RunEnd(s, k3, WhiteSpace)
        k5 == RunEnd(s, k4, Base64URLChars)
    IN  IF /\ HasPrefix(s, AUTH)
           /\ k1 > Len(AUTH) + 1
           /\ k2 - k1 = PubKeyChars
           /\ k4 > k3
           /\ k5 = Len(s) + 1
           /\ k5 - k4 >= 1
        THEN [nil |-> FALSE, key |-> SubSeq(s, k1, k3 - 1),
              nonce |-> SubSeq(s, k4, Len(s))]
        ELSE NoMatch

\* authCommandRe.FindStringSubmatch for
\* ^AUTH\s+([A-Za-z0-9_-]{43}=?)\s+([A-Za-z0-9_-]{16,})$ .  The class
\* holds neither white space nor "=", so the match is unique when there is
\* one.
authCommandRe(s) ==
    LET k1 == RunEnd(s, Len(AUTH) + 1, WhiteSpace)
        k2 == RunEnd(s, k1, Base64URLChars)
        k3 == IF k2 <= Len(s) /\ s[k2] = "=" THEN k2 + 1 ELSE k2
        k4 == RunEnd(s, k3, WhiteSpace)
        k5 == RunEnd(s, k4, Base64URLChars)
    IN  IF /\ HasPrefix(s, AUTH)
           /\ k1 > Len(AUTH) + 1
           /\ k2 - k1 = PubKeyChars
           /\ k4 > k3
           /\ k5 = Len(s) + 1
           /\ k5 - k4 >= NonceMinChars
        THEN [nil |-> FALSE, key |-> SubSeq(s, k1, k3 - 1),
              nonce |-> SubSeq(s, k4, Len(s))]
        ELSE NoMatch

\* base64.RawURLEncoding.DecodeString, as far as Handle looks at it: whether
\* it fails (a character outside the alphabet, the padding character
\* included, or a dangling character) and how many bytes come out.
DecodeString(s) ==
    [err |-> ~(Range(s) \subseteq Base64URLChars) \/ Len(s) % 4 = 1,
     len |-> (Len(s) * 6) \div 8]

\* ------------------------------------------------------------- login handler

\* auth.oauth in the configuration: issuer, audience, ttl (24 h), spa_url.
oauthIssuer == "whatsadk-gateway"
oauthAudience == "adk-cloud-proxy"
oauthTTL == 24 * Window
SPAURL == <<"https://chat.example.com", "/">>

\* The gateway's Ed25519 key.
OAuthKey == "kO"

\* Senders of login commands, as the caller hands them to Handle.
AuthSenders == { <<"9", "1">>, <<"+", "1", "2">> }

\* The token generator that takes its arguments in another order.
OAuthToken_ArgumentsSwapped(phone, nonce, userPubKey, t) ==
    [alg |-> "EdDSA", sig |-> OAuthKey,
     payload |-> [nonce |-> userPubKey, pubkey |-> nonce, sub |-> phone,
                  iss |-> oauthIssuer, aud |-> <<oauthAudience>>,
                  iat |-> t, exp |-> t + oauthTTL]]

\* OAuthTokenGenerator.Token: an EdDSA token binding the phone to the nonce
\* and the public key.  The key was checked when it was loaded and the
\* claims are strings, so signing does not fail.
OAuthToken(phone, nonce, userPubKey, t) ==
    [alg |-> "EdDSA", sig |-> OAuthKey,
     payload |-> [nonce |-> nonce, pubkey |-> userPubKey, sub |-> phone,
                  iss |-> oauthIssuer, aud |-> <<oauthAudience>>,
                  iat |-> t, exp |-> t + oauthTTL]]

\* The replies of OAuthHandler.Handle.
oauthReplies ==
    [InvalidFormat |-> "Invalid AUTH command format. Expected: AUTH <public_key> <nonce>",
     InvalidEncoding |-> "Invalid public key: not valid base64url encoding.",
     InvalidLength |-> "Invalid public key: expected 32 bytes, got %d.",
     TooMany |-> "Too many AUTH requests. Please try again later.",
     Link |-> "Click here to complete login:\n"]

\* The deep link "%s/auth#token=%s&nonce=%s".
DeepLink(base, token, nonce) ==
    [base |-> base, path |-> "/auth#token=", token |-> token,
     sep |-> "&nonce=", nonce |-> nonce]

NoLink == DeepLink(<<>>, NoToken, <<>>)

\* history[phone], nil for a phone the map does not hold.
Bucket(hist, phone) == IF phone \in DOMAIN hist THEN hist[phone] ELSE <<>>

\* h.history[phone] = bucket.
Put(hist, phone, bucket) ==
    [q \in DOMAIN hist \cup {phone} |-> IF q = phone THEN bucket ELSE hist[q]]

\* The pruning that keeps every timestamp, whatever its age.
valid_KeepsExpired(timestamps, t) == SelectSeq(timestamps, LAMBDA x : x <= t)

\* The timestamps of a bucket that are after the cutoff, now minus one hour.
valid(timestamps, t) == SelectSeq(timestamps, LAMBDA x : x > t - Window)

\* The admission that admits one request more than the limit.
Admit_OneTooMany(timestamps, t) ==
    IF Len(valid(timestamps, t)) > rateLimit
    THEN [ok |-> FALSE, bucket |-> valid(timestamps, t)]
    ELSE [ok |-> TRUE, bucket |-> Append(valid(timestamps, t), t)]

\* The admission that records the denied request as well.
Admit_RecordsDenied(timestamps, t) ==
    IF Len(valid(timestamps, t)) >= rateLimit
    THEN [ok |-> FALSE, bucket |-> Tail(Append(valid(timestamps, t), t))]
    ELSE [ok |-> TRUE, bucket |-> Append(valid(timestamps, t), t)]

\* checkRateLimit lines 82-97 on one bucket: prune, then deny and store the
\* pruned bucket, or grant and store it with the current time appended.
Admit(timestamps, t) ==
    IF Len(valid(timestamps, t)) >= rateLimit
    THEN [ok |-> FALSE, bucket |-> valid(timestamps, t)]
    ELSE [ok |-> TRUE, bucket |-> Append(valid(timestamps, t), t)]

\* OAuthHandler.checkRateLimit, run under the mutex from Lock to Unlock.
checkRateLimit(hist, phone, t) ==
    [ok |-> Admit(Bucket(hist, phone), t).ok,
     history |-> Put(hist, phone, Admit(Bucket(hist, phone), t).bucket)]

\* NewOAuthHandler: the SPA URL loses its trailing slashes.
NewOAuthHandler(url) == [spaURL |-> TrimRight(url, {"/"})]

\* What one call of OAuthHandler.Handle returns and does: the reply, the
\* error, the deep link and token it made, whether it asked the rate
\* limiter, and the history it leaves.
AuthOutcome(reply, got, link, asked, hist) ==
    [reply |-> reply, got |-> got, err |-> FALSE, link |-> link,
     asked |-> asked, history |-> hist]

\* The handler that asks the rate limiter before it looks at the text.
OAuthHandle_RateFirst(h, hist, senderPhone, messageBody, t) ==
    LET matches == authCommandRe(TrimSpace(messageBody))
        userPubKey == matches.key
        nonce == matches.nonce
        decoded == DecodeString(userPubKey)
        rate == checkRateLimit(hist, senderPhone, t)
        tokenStr == OAuthToken(senderPhone, nonce, userPubKey, t)
    IN  IF ~rate.ok
        THEN AuthOutcome(oauthReplies.TooMany, 0, NoLink, TRUE, rate.history)
        ELSE IF matches.nil
        THEN AuthOutcome(oauthReplies.InvalidFormat, 0, NoLink, TRUE, rate.history)
        ELSE IF decoded.err
        THEN AuthOutcome(oauthReplies.InvalidEncoding, 0, NoLink, TRUE, rate.history)
        ELSE IF decoded.len # PubKeyBytes
        THEN AuthOutcome(oauthReplies.InvalidLength, decoded.len, NoLink, TRUE, rate.history)
        ELSE AuthOutcome(oauthReplies.Link, 0,
                         DeepLink(h.spaURL, tokenStr, nonce), TRUE, rate.history)

\* OAuthHandler.Handle.
OAuthHandle(h, hist, senderPhone, messageBody, t) ==
    LET matches == authCommandRe(TrimSpace(messageBody))
        userPubKey == matches.key
        nonce == matches.nonce
        decoded == DecodeString(userPubKey)
        rate == checkRateLimit(hist, senderPhone, t)
        tokenStr == OAuthToken(senderPhone, nonce, userPubKey, t)
    IN  IF matches.nil
        THEN AuthOutcome(oauthReplies.InvalidFormat, 0, NoLink, FALSE, hist)
        ELSE IF decoded.err
        THEN AuthOutcome(oauthReplies.InvalidEncoding, 0, NoLink, FALSE, hist)
        ELSE IF decoded.len # PubKeyBytes
        THEN AuthOutcome(oauthReplies.InvalidLength, decoded.len, NoLink, FALSE, hist)
        ELSE IF ~rate.ok
        THEN AuthOutcome(oauthReplies.TooMany, 0, NoLink, TRUE, rate.history)
        ELSE AuthOutcome(oauthReplies.Link, 0,
                         DeepLink(h.spaURL, tokenStr, nonce), TRUE, rate.history)

\* ------------------------------------------------------------ login texts

\* First arguments: a 32-byte key in unpadded base64url, the same key with
\* its padding character, a key one character short, one character long,
\* and one with a character outside the alphabet.
GoodKey == <<"x", "-", "_", "9">> \o Rep("b", PubKeyChars - 4)
KeyArgs ==
    { GoodKey,
      GoodKey \o <<"=">>,
      Rep("A", PubKeyChars - 1),
      Rep("A", PubKeyChars + 1),
      Rep("A", PubKeyChars - 1) \o <<"!">> }

\* Second arguments: nonces of the minimum length, longer and too short.
GoodNonce == Rep("n", NonceMinChars)
NonceArgs ==
    { GoodNonce,
      <<"N", "-", "_", "0">> \o Rep("z", NonceMinChars),
      Rep("n", NonceMinChars - 1) }

\* First words: the keyword in three spellings, a longer word that starts
\* with it, and another word.
Keywords ==
    { AUTH,
      <<"a", "u", "t", "h">>,
      <<"A", "u", "t", "h">>,
      AUTH \o <<"E", "N", "T", "I", "C", "A", "T", "E">>,
      <<"H", "E", "L", "L", "O">> }

\* What stands between the words.
Separators == { <<" ">>, <<"\t">>, <<" ", " ">> }

Command(keyword, sep, key, nonce) == keyword \o sep \o key \o sep \o nonce

\* The message texts handed to IsAuthCommand and OAuthHandler.Handle.
AuthTexts ==
    {Command(kw, sep, GoodKey, GoodNonce) : kw \in Keywords, sep \in Separators}
    \cup {Command(AUTH, <<" ">>, key, nonce) : key \in KeyArgs, nonce \in NonceArgs}
    \cup {<<" ", " ">> \o Command(kw, <<" ">>, GoodKey, GoodNonce) \o <<" ", "\n">> :
            kw \in {AUTH, <<"a", "u", "t", "h">>}}
    \cup { <<>>,
           AUTH,
           AUTH \o <<" ">>,
           <<"h", "e", "l", "l", "o">>,
           AUTH \o <<" ">> \o GoodKey,
           AUTH \o <<" ">> \o GoodKey \o <<" ">> \o GoodNonce \o <<" ">> \o GoodNonce }

\* --------------------------------------------------------- token generators

\* Instants in a second, and the last instant of the wall clock.
TicksPerSecond == 2
MaxInstant == 3

\* jwt.NewNumericDate: the instant truncated to jwt.TimePrecision, a second.
NewNumericDate(t) == t - (t % TicksPerSecond)

\* What time.ParseDuration makes of auth.jwt.ttl: "0s", "500ms", "1s",
\* "1500ms", "2s" when a second has two instants.
TTLs == 0 .. (2 * TicksPerSecond)

\* NewJWTGenerator(keyPath, issuer, audience, ttl) of the configurations.
JWTGenerators ==
    [key : {GatewayKey}, issuer : {"", issuer}, audience : {"", "adk-agent"},
     ttl : TTLs]

\* NewOAuthTokenGenerator(keyPath, issuer, audience, ttl).
OAuthTokenGenerators ==
    [key : {OAuthKey}, issuer : {oauthIssuer}, audience : {oauthAudience},
     ttl : {TicksPerSecond - 1, TicksPerSecond, 2 * TicksPerSecond}]

\* The keys by type: *rsa.PublicKey and ed25519.PublicKey.
RSAKeys == TenantKeys \cup {GatewayKey}
Ed25519Keys == {OAuthKey}

\* A member of the JSON object of jwt.RegisteredClaims: left out when the
\* field has its zero value (omitempty).
Member(name, value, zero) ==
    IF value = zero THEN [x \in {} |-> zero] ELSE [x \in {name} |-> value]

\* json.Marshal of a claims struct: the struct's own members, then the
\* registered claims that are set.
Marshal(own, iss, sub, aud, iat, exp) ==
    own @@ Member("iss", iss, "") @@ Member("sub", sub, <<>>)
        @@ Member("aud", aud, <<>>)
        @@ [x \in {"iat"} |-> iat] @@ [x \in {"exp"} |-> exp]

\* The generator that puts the configured audience in the place of the issuer.
JWTGenerator_Token_AudienceAsIssuer(g, userID, t) ==
    [alg |-> "RS256", sig |-> g.key,
     payload |-> Marshal([user_id |-> userID, channel |-> "whatsapp"],
                         g.audience, <<>>,
                         IF g.issuer # "" THEN <<g.issuer>> ELSE <<>>,
                         NewNumericDate(t), NewNumericDate(t + g.ttl))]

\* JWTGenerator.Token: the audience claim is set when one is configured.
JWTGenerator_Token(g, userID, t) ==
    [alg |-> "RS256", sig |-> g.key,
     payload |-> Marshal([user_id |-> userID, channel |-> "whatsapp"],
                         g.issuer, <<>>,
                         IF g.audience # "" THEN <<g.audience>> ELSE <<>>,
                         NewNumericDate(t), NewNumericDate(t + g.ttl))]

\* The generator that ignores the audience of the call.
JWTGenerator_TokenWithAudience_Configured(g, userID, audience, t) ==
    JWTGenerator_Token(g, userID, t)

\* JWTGenerator.TokenWithAudience for any generator and any instant;
\* TokenWithAudience above is this for the gateway's generator.
JWTGenerator_TokenWithAudience(g, userID, audience, t) ==
    [alg |-> "RS256", sig |-> g.key,
     payload |-> Marshal([user_id |-> userID, channel |-> "whatsapp"],
                         g.issuer, <<>>, <<audience>>,
                         NewNumericDate(t), NewNumericDate(t + g.ttl))]

\* OAuthTokenGenerator.Token for any generator and any instant.
OAuthTokenGenerator_Token(g, phone, nonce, userPubKey, t) ==
    [alg |-> "EdDSA", sig |-> g.key,
     payload |-> Marshal([nonce |-> nonce, pubkey |-> userPubKey],
                         g.issuer, phone, <<g.audience>>,
                         NewNumericDate(t), NewNumericDate(t + g.ttl))]

\* json.Unmarshal into the claims struct: the member, or the zero value of
\* the field when the object has no such member.
Field(payload, name, zero) ==
    IF name \in DOMAIN payload THEN payload[name] ELSE zero

\* jwt.ParseWithClaims(tokenStr, claims, func returning key) as the tests of
\* the generators call it, at instant t: the method of the header verifies
\* the signature with the key, then exp is validated.
ParseWithClaims(tokenStr, key, t) ==
    LET keyFits == \/ tokenStr.alg \in SigningMethodRSA /\ key \in RSAKeys
                   \/ tokenStr.alg = "EdDSA" /\ key \in Ed25519Keys
        err == IF ~keyFits THEN "key_type"
               ELSE IF tokenStr.sig # key THEN "signature_invalid"
               ELSE IF ~(t < Field(tokenStr.payload, "exp", t + 1))
               THEN "expired"
               ELSE ""
    IN  [err |-> err, claims |-> tokenStr.payload]

\* Who the generators issue tokens for, and the audiences of the calls.
Subjects == { <<"9", "1">>, <<"1", "2">> }
Audiences == {"", "appA", "adk-agent"}

\* ------------------------------------------------------------ key registry

\* The key files the configuration can name, and what a path holds: nothing
\* (os.ReadFile fails), text without a PEM block, a PEM block that is not a
\* PKIX public key (a private key, say), a PKIX public key that is not RSA,
\* or the RSA public key of a tenant.
KeyPaths == {"a.pem", "b.pem"}
FileStates == {"missing", "text", "der", "ec"} \cup TenantKeys

\* verification.apps: app name -> public_key_path, for up to two tenants.
AppConfigs ==
    UNION {[names -> KeyPaths] : names \in SUBSET {"appA", "appB"}}

\* The orders in which range can go through the keys of a map.
Orders(apps) ==
    {o \in [1..Cardinality(DOMAIN apps) -> DOMAIN apps] :
        \A i, j \in DOMAIN o : i # j => o[i] # o[j]}

\* loadPublicKey, given what the path holds.
loadPublicKey(file) ==
    CASE file = "missing" -> [err |-> "failed to read public key file", key |-> BadSig]
      [] file = "text" -> [err |-> "no PEM block found in key data", key |-> BadSig]
      [] file = "der" -> [err |-> "failed to parse public key", key |-> BadSig]
      [] file = "ec" -> [err |-> "key is not RSA", key |-> BadSig]
      [] OTHER -> [err |-> "", key |-> file]

NoApps == [a \in {} |-> BadSig]
NoLoadError == [app |-> "", cause |-> ""]

\* NewKeyRegistry that leaves out the tenants whose key does not load.
NewKeyRegistry_SkipsBadKeys(apps, order, files) ==
    LET good == {a \in DOMAIN apps : loadPublicKey(files[apps[a]]).err = ""}
    IN  [nil |-> FALSE, err |-> NoLoadError,
         appKeys |-> [a \in good |-> loadPublicKey(files[apps[a]]).key]]

\* NewKeyRegistry: range goes through apps in the given order and returns at
\* the first key that does not load.
NewKeyRegistry(apps, order, files) ==
    LET bad == {i \in DOMAIN order : loadPublicKey(files[apps[order[i]]]).err # ""}
        first == CHOOSE i \in bad : \A j \in bad : i <= j
    IN  IF bad # {}
        THEN [nil |-> TRUE,
              err |-> [app |-> order[first],
                       cause |-> loadPublicKey(files[apps[order[first]]]).err],
              appKeys |-> NoApps]
        ELSE [nil |-> FALSE, err |-> NoLoadError,
              appKeys |-> [a \in DOMAIN apps |-> loadPublicKey(files[apps[a]]).key]]

\* The configuration and the files behind the registry of the gateway.
mainApps == [appA |-> "a.pem", appB |-> "b.pem"]
mainFiles == [p \in KeyPaths |-> IF p = "a.pem" THEN "kA" ELSE "kB"]

\* --------------------------------------------------------- blacklist store

\* The phones and reasons the operator blacklists, and whether the database
\* answers a statement or fails it (connection lost, context cancelled).
StorePhones == {"910987654321", "910111111111", "12"}
Reasons == {"spam", "spam again"}
DBStates == {"up", "down"}

\* The rows of blacklisted_numbers with the given primary key.
RowsOf(rows, phone) == SelectSeq(rows, LAMBDA r : r.phone = phone)

\* Store.IsBlacklisted: SELECT 1 ... WHERE phone = $1.
IsBlacklisted(rows, phone, db) ==
    IF db = "down" THEN [found |-> FALSE, err |-> TRUE]
    ELSE IF RowsOf(rows, phone) = <<>> THEN [found |-> FALSE, err |-> FALSE]
    ELSE [found |-> TRUE, err |-> FALSE]

\* An INSERT without the ON CONFLICT clause on a table without the key.
AddBlacklist_AlwaysInserts(rows, phone, reason, db) ==
    IF db = "down" THEN [rows |-> rows, err |-> TRUE]
    ELSE [rows |-> Append(rows, [phone |-> phone, reason |-> reason]), err |-> FALSE]

\* Store.AddBlacklist: INSERT ... ON CONFLICT (phone) DO NOTHING.
AddBlacklist(rows, phone, reason, db) ==
    IF db = "down" THEN [rows |-> rows, err |-> TRUE]
    ELSE IF RowsOf(rows, phone) # <<>> THEN [rows |-> rows, err |-> FALSE]
    ELSE [rows |-> Append(rows, [phone |-> phone, reason |-> reason]), err |-> FALSE]

\* Store.RemoveBlacklist: DELETE ... WHERE phone = $1.
RemoveBlacklist(rows, phone, db) ==
    IF db = "down" THEN [rows |-> rows, err |-> TRUE]
    ELSE [rows |-> SelectSeq(rows, LAMBDA r : r.phone # phone), err |-> FALSE]

\* ------------------------------------------------------------------- state

VARIABLES
    appKeys,        \* KeyRegistry.appKeys
    devOpsNumbers,  \* Handler.devOpsNumbers
    blacklist,      \* Handler.blacklist # nil
    now,            \* the wall clock
    phase,          \* "idle": waiting for a message; "handled": Handle returned
    in,             \* the message being handled and what the collaborators answered
    out,            \* what Handle returned and did
    history,        \* OAuthHandler.history
    mu,             \* OAuthHandler.mu: the goroutine holding it, or NoHolder
    clock,          \* time.Now() as checkRateLimit reads it
    cmd,            \* the login text being handled, its sender, IsAuthCommand of it
    res,            \* what OAuthHandler.Handle returned and did
    pc,             \* where each goroutine stands in checkRateLimit
    loc,            \* the locals of each goroutine in checkRateLimit
    grants,         \* the admissions granted to each sender, the latest window of them
    generator,      \* the JWTGenerator and the OAuthTokenGenerator main builds
    instant,        \* time.Now() as the generators read it
    issued,         \* the last token issued: by which method, for whom, when
    keyFiles,       \* what each key file holds
    registry,       \* what NewKeyRegistry was given and what it returned
    table,          \* the rows of blacklisted_numbers, oldest first
    call,           \* the last call of the store and what it returned
    latest,         \* for each phone, the last statement that succeeded on it
    client,         \* whatsapp.Client: verifyHandler # nil, the whitelist
    event,          \* the message handleMessage was called with, and the answers
    routed,         \* what handleMessage did with it
    flow            \* where each concurrent flow stands, its inputs and results

vars ==
    <<appKeys, devOpsNumbers, blacklist, now, phase, in, out,
      history, mu, clock, cmd, res, pc, loc, grants,
      generator, instant, issued, keyFiles, registry, table, call, latest,
      client, event, routed, flow>>

\* The variables of the components that run on their own.
tokenVars == <<generator, instant, issued>>
keyVars == <<keyFiles, registry>>
storeVars == <<table, call, latest>>
clientVars == <<client, event, routed>>
flowVars == <<flow>>
unitVars == <<tokenVars, keyVars, storeVars, clientVars, flowVars>>

\* The variables of the login flow.
authVars == <<history, mu, clock, cmd, res, pc, loc, grants>>

handler == [keys |-> appKeys, devOpsNumbers |-> devOpsNumbers, blacklist |-> blacklist]

NoIn ==
    [sender |-> <<>>, body |-> PlainText,
     env |-> [bl |-> Unused, sign |-> Unused, http |-> UnusedHTTP]]

NoOut == Outcome("", <<>>, Unused, NoToken, <<>>, <<>>)

\* ---------------------------------------------------------- message routing

indiaCountryCode == <<"9", "1">>

\* The replies handleMessage writes itself.
clientReplies ==
    [Rejection |-> "Sorry, we only entertain friends from India.",
     AgentError |-> "Sorry, I encountered an error processing your message. Please try again."]

\* msg.Info.Sender.User of the messages: an Indian number, a foreign number,
\* a foreign number that contains the code further on, and the code cut short.
ClientSenders == { <<"9", "1">>, <<"1", "2">>, <<"1", "9", "1">>, <<"9">> }

\* whatsapp.whitelisted_users of the configurations.
Whitelists == { {}, { <<"1", "2">> } }

\* A message without text (an image, a sticker): extractText returns "".
NoText == [PlainText EXCEPT !.kind = "empty"]

\* The texts of the messages: chat text, and tokens of tenant appA for the
\* mobile +91 with and without a callback_url, well and badly signed.
ClientBodies ==
    {NoText, PlainText}
    \cup {b \in JWTBodies :
            /\ b.pad = "" /\ b.alg = "RS256" /\ b.sig \in {"kA", BadSig}
            /\ b.mobile = <<"+", "9", "1">> /\ b.app_name = "appA"
            /\ b.challenge_id = "c1" /\ b.exp = NoExp}

\* events.Message as handleMessage reads it.
Messages ==
    [IsFromMe : BOOLEAN, IsGroup : BOOLEAN, Sender : ClientSenders,
     text : ClientBodies]

\* What adkClient.Chat returns: a response, an empty response, an error.
AgentAnswers == {"response", "empty", "error"}

\* Config.IsUserWhitelisted
IsUserWhitelisted(whitelist, userID) == userID \in whitelist

\* isUserAllowed that looks for the country code anywhere in the identity.
isUserAllowed_CodeAnywhere(c, userID) ==
    \/ IsUserWhitelisted(c.whitelist, userID)
    \/ \E i \in 1..Len(userID) :
         HasPrefix(SubSeq(userID, i, Len(userID)), indiaCountryCode)

\* Client.isUserAllowed
isUserAllowed(c, userID) ==
    \/ IsUserWhitelisted(c.whitelist, userID)
    \/ HasPrefix(userID, indiaCountryCode)

\* What handleMessage did: the messages it sent to the chat, the stages it
\* went through, the calls of the agent, what the verification handler did.
Routed(sent, stages, chat, verify) ==
    [sent |-> sent, stages |-> stages, chat |-> chat, verify |-> verify]

\* The access control and the agent call of handleMessage (client.go:164-195).
Forward(c, userID, text, stages, verify, agent) ==
    IF ~isUserAllowed(c, userID)
    THEN Routed(<<clientReplies.Rejection>>, Append(stages, "access"), <<>>, verify)
    ELSE LET chat == << [userID |-> userID, text |-> text] >>
             st == stages \o <<"access", "chat">>
         IN  IF agent = "error"
             THEN Routed(<<clientReplies.AgentError>>, st, chat, verify)
             ELSE IF agent = "empty"
             THEN Routed(<<>>, st, chat, verify)
             ELSE Routed(<<"response">>, st, chat, verify)

\* handleMessage that applies the access control before it looks for a token.
handleMessage_AccessFirst(c, h, msg, t, env) ==
    IF msg.IsFromMe \/ msg.IsGroup \/ msg.text = NoText
    THEN Routed(<<>>, <<>>, <<>>, NoOut)
    ELSE IF ~isUserAllowed(c, msg.Sender)
    THEN Forward(c, msg.Sender, msg.text, <<>>, NoOut, env.agent)
    ELSE IF c.verifyHandler /\ ~IsVerificationToken(msg.text).nil
    THEN LET o == Handle(h, msg.Sender, msg.text, t, env.verify)
         IN  Routed(<<o.reply>>, <<"access", "verify">>, <<>>, o)
    ELSE Forward(c, msg.Sender, msg.text, <<>>, NoOut, env.agent)

\* Client.handleMessage.  c is the client (verifyHandler # nil, the
\* whitelist), h the verification handler, env what the handler's
\* collaborators and the agent answer.
handleMessage(c, h, msg, t, env) ==
    LET userID == msg.Sender
        isToken == c.verifyHandler /\ ~IsVerificationToken(msg.text).nil
        o == Handle(h, userID, msg.text, t, env.verify)
    IN  IF msg.IsFromMe \/ msg.IsGroup \/ msg.text = NoText
        THEN Routed(<<>>, <<>>, <<>>, NoOut)
        ELSE IF isToken /\ o.reply # ""
        THEN Routed(<<o.reply>>, <<"verify">>, <<>>, o)
        ELSE IF isToken
        THEN Forward(c, userID, msg.text, <<"verify">>, o, env.agent)
        ELSE Forward(c, userID, msg.text, <<>>, NoOut, env.agent)

\* The login handler main builds.
oauthHandler == NewOAuthHandler(SPAURL)

\* make(map[string][]time.Time)
NoHistory == [p \in {} |-> <<>>]

\* The goroutines that deliver messages, and the free mutex.
Workers == {"w1", "w2"}
NoHolder == "nobody"

NoCmd == [sender |-> <<>>, text |-> <<>>, routed |-> FALSE]
NoRes == AuthOutcome("", 0, NoLink, FALSE, NoHistory)
NoLoc == [phone |-> <<>>, now |-> 0, timestamps |-> <<>>, ok |-> FALSE]

\* The generators of the default configuration: no audience, the default
\* TTL; the login generator with a TTL of one window.
mainGenerators ==
    [jwt |-> [key |-> GatewayKey, issuer |-> issuer, audience |-> "",
              ttl |-> 2 * TicksPerSecond],
     oauth |-> [key |-> OAuthKey, issuer |-> oauthIssuer,
                audience |-> oauthAudience, ttl |-> 2 * TicksPerSecond]]

NoIssue ==
    [by |-> "", subject |-> <<>>, audience |-> "", token |-> NoToken, at |-> 0]

\* main: NewKeyRegistry(cfg.Verification.Apps), NewHandler(...),
\* NewOAuthHandler(...).
InitGateway ==
    /\ appKeys = Apps
    /\ \E cfg \in DevOpsConfigs : devOpsNumbers = NewDevOps(cfg)
    /\ blacklist \in BOOLEAN
    /\ now = 0
    /\ phase = "idle"
    /\ in = NoIn
    /\ out = NoOut
    /\ history = NoHistory
    /\ mu = NoHolder
    /\ clock = 0
    /\ cmd = NoCmd
    /\ res = NoRes
    /\ pc = [w \in Workers |-> "idle"]
    /\ loc = [w \in Workers |-> NoLoc]
    /\ grants = [p \in AuthSenders |-> <<>>]

\* The registry main loaded from mainApps.
Loaded(apps, order, files) ==
    [loaded |-> TRUE, apps |-> apps, read |-> files]
        @@ NewKeyRegistry(apps, order, files)

NotLoaded ==
    [loaded |-> FALSE, apps |-> NoApps, read |-> mainFiles, nil |-> TRUE,
     err |-> NoLoadError, appKeys |-> NoApps]

\* The components that run on their own, at rest.
TokenIdle == generator = mainGenerators /\ instant = 0 /\ issued = NoIssue
KeysIdle ==
    /\ keyFiles = mainFiles
    /\ registry = Loaded(mainApps, <<"appA", "appB">>, mainFiles)

NoCall ==
    [op |-> "", phone |-> "", reason |-> "", db |-> "", found |-> FALSE,
     err |-> FALSE]

\* Open, migrate: the table exists and is empty.
StoreIdle ==
    /\ table = <<>>
    /\ call = NoCall
    /\ latest = [p \in StorePhones |-> ""]

NoEnv == [bl |-> Unused, sign |-> Unused, http |-> UnusedHTTP]

NoEvent ==
    [arrived |-> FALSE,
     msg |-> [IsFromMe |-> FALSE, IsGroup |-> FALSE, Sender |-> <<>>,
              text |-> NoText],
     env |-> [verify |-> NoEnv, agent |-> Unused]]

\* whatsapp.New: no message handled yet.
ClientIdle ==
    /\ client = [verifyHandler |-> TRUE, whitelist |-> {}]
    /\ event = NoEvent
    /\ routed = Routed(<<>>, <<>>, <<>>, NoOut)

\* A goroutine that runs no flow.
NoFlow ==
    [pc |-> "idle", kind |-> "none", sender |-> <<>>, body |-> PlainText,
     text |-> <<>>, env |-> NoIn.env, t |-> 0, out |-> NoOut,
     userPubKey |-> <<>>, nonce |-> <<>>, reply |-> "", link |-> NoLink]

FlowsIdle == flow = [w \in Workers |-> NoFlow]

Init ==
    /\ InitGateway
    /\ TokenIdle
    /\ KeysIdle
    /\ StoreIdle
    /\ ClientIdle
    /\ FlowsIdle

\* A message arrives and Handler.Handle runs on it to completion.
HandleMessage ==
    /\ phase = "idle"
    /\ \E senderPhone \in SenderPhones, messageBody \in Bodies :
         \E env \in Envs(handler, senderPhone, messageBody, now) :
            /\ in' = [sender |-> senderPhone, body |-> messageBody, env |-> env]
            /\ out' = Handle(handler, senderPhone, messageBody, now, env)
    /\ phase' = "handled"
    /\ UNCHANGED <<appKeys, devOpsNumbers, blacklist, now>>
    /\ UNCHANGED unitVars
    /\ UNCHANGED authVars

\* The caller takes the reply (whatsapp.Client.handleMessage sends it when
\* it is not empty) and the flow of this message is over.
Return ==
    /\ phase = "handled"
    /\ phase' = "idle"
    /\ in' = NoIn
    /\ out' = NoOut
    /\ UNCHANGED <<appKeys, devOpsNumbers, blacklist, now>>
    /\ UNCHANGED unitVars
    /\ UNCHANGED authVars

\* Time passes between messages.
Tick ==
    /\ phase = "idle"
    /\ now < MaxTime
    /\ now' = now + 1
    /\ UNCHANGED <<appKeys, devOpsNumbers, blacklist, phase, in, out>>
    /\ UNCHANGED unitVars
    /\ UNCHANGED authVars

Next == HandleMessage \/ Return \/ Tick

Spec == Init /\ [][Next]_vars

\* ---------------------------------------------------- the login flow, whole

\* The admissions among those listed that were granted less than one
\* window before t.
Recent(times, t) == SelectSeq(times, LAMBDA x : t - x < Window)

\* A text arrives; the caller asks IsAuthCommand about it and
\* OAuthHandler.Handle runs on it to completion.
HandleAuth ==
    /\ phase = "idle"
    /\ \E senderPhone \in AuthSenders, messageBody \in AuthTexts :
         LET o == OAuthHandle(oauthHandler, history, senderPhone, messageBody, clock)
         IN  /\ cmd' = [sender |-> senderPhone, text |-> messageBody,
                         routed |-> IsAuthCommand(messageBody)]
             /\ res' = o
             /\ history' = o.history
             /\ grants' = IF o.link # NoLink
                          THEN [grants EXCEPT ![senderPhone] = Append(@, clock)]
                          ELSE grants
    /\ phase' = "handled"
    /\ UNCHANGED <<appKeys, devOpsNumbers, blacklist, now, in, out>>
    /\ UNCHANGED unitVars
    /\ UNCHANGED <<mu, clock, pc, loc>>

\* The caller sends the reply and the flow of this text is over.
ReturnAuth ==
    /\ phase = "handled"
    /\ phase' = "idle"
    /\ cmd' = NoCmd
    /\ res' = NoRes
    /\ UNCHANGED <<appKeys, devOpsNumbers, blacklist, now, in, out>>
    /\ UNCHANGED unitVars
    /\ UNCHANGED <<history, mu, clock, pc, loc, grants>>

\* The rate limiter's clock advances between two calls or two steps.  The
\* record of admissions drops those that left the window, unless a check
\* that read an earlier time is still to be decided.
Advance ==
    /\ phase = "idle"
    /\ clock < MaxClock
    /\ clock' = clock + 1
    /\ grants' = IF \E w \in Workers : pc[w] = "write"
                 THEN grants
                 ELSE [p \in AuthSenders |-> Recent(grants[p], clock + 1)]
    /\ UNCHANGED <<appKeys, devOpsNumbers, blacklist, now, phase, in, out>>
    /\ UNCHANGED unitVars
    /\ UNCHANGED <<history, mu, cmd, res, pc, loc>>

\* The gateway with no verification collaborators, serving login texts.
InitAuth ==
    /\ Init
    /\ ~blacklist
    /\ devOpsNumbers = {}

NextAuth == HandleAuth \/ ReturnAuth \/ Advance

SpecAuth == InitAuth /\ [][NextAuth]_vars

\* ------------------------------------------- the rate limiter, step by step

\* A goroutine enters checkRateLimit for some sender.
Call(w) ==
    /\ pc[w] = "idle"
    /\ \E phone \in AuthSenders :
         loc' = [loc EXCEPT ![w] = [NoLoc EXCEPT !.phone = phone]]
    /\ pc' = [pc EXCEPT ![w] = "lock"]
    /\ UNCHANGED <<appKeys, devOpsNumbers, blacklist, now, phase, in, out>>
    /\ UNCHANGED unitVars
    /\ UNCHANGED <<history, mu, clock, cmd, res, grants>>

\* h.mu.Lock() without waiting for the mutex to be free.
Lock_NoMutex(w) ==
    /\ pc[w] = "lock"
    /\ mu' = w
    /\ pc' = [pc EXCEPT ![w] = "read"]
    /\ UNCHANGED <<appKeys, devOpsNumbers, blacklist, now, phase, in, out>>
    /\ UNCHANGED unitVars
    /\ UNCHANGED <<history, clock, cmd, res, loc, grants>>

\* h.mu.Lock()
Lock(w) ==
    /\ pc[w] = "lock"
    /\ mu = NoHolder
    /\ mu' = w
    /\ pc' = [pc EXCEPT ![w] = "read"]
    /\ UNCHANGED <<appKeys, devOpsNumbers, blacklist, now, phase, in, out>>
    /\ UNCHANGED unitVars
    /\ UNCHANGED <<history, clock, cmd, res, loc, grants>>

\* now := time.Now(); timestamps := h.history[phone]
Read(w) ==
    /\ pc[w] = "read"
    /\ loc' = [loc EXCEPT ![w].now = clock,
                          ![w].timestamps = Bucket(history, loc[w].phone)]
    /\ pc' = [pc EXCEPT ![w] = "write"]
    /\ UNCHANGED <<appKeys, devOpsNumbers, blacklist, now, phase, in, out>>
    /\ UNCHANGED unitVars
    /\ UNCHANGED <<history, mu, clock, cmd, res, grants>>

\* The pruning, the comparison and the assignment to h.history[phone].
Write(w) ==
    /\ pc[w] = "write"
    /\ LET a == Admit(loc[w].timestamps, loc[w].now)
       IN  /\ history' = Put(history, loc[w].phone, a.bucket)
           /\ loc' = [loc EXCEPT ![w].ok = a.ok]
           /\ grants' = IF a.ok
                        THEN [grants EXCEPT ![loc[w].phone] = Append(@, loc[w].now)]
                        ELSE grants
    /\ pc' = [pc EXCEPT ![w] = "unlock"]
    /\ UNCHANGED <<appKeys, devOpsNumbers, blacklist, now, phase, in, out>>
    /\ UNCHANGED unitVars
    /\ UNCHANGED <<mu, clock, cmd, res>>

\* The deferred h.mu.Unlock(); checkRateLimit returns loc[w].ok and its
\* locals are gone.
Unlock(w) ==
    /\ pc[w] = "unlock"
    /\ mu' = NoHolder
    /\ pc' = [pc EXCEPT ![w] = "idle"]
    /\ loc' = [loc EXCEPT ![w] = NoLoc]
    /\ UNCHANGED <<appKeys, devOpsNumbers, blacklist, now, phase, in, out>>
    /\ UNCHANGED unitVars
    /\ UNCHANGED <<history, clock, cmd, res, grants>>

NextRate ==
    \/ \E w \in Workers : Call(w)
    \/ \E w \in Workers : Lock(w)
    \/ \E w \in Workers : Read(w)
    \/ \E w \in Workers : Write(w)
    \/ \E w \in Workers : Unlock(w)
    \/ Advance

SpecRate == InitAuth /\ [][NextRate]_vars

\* ------------------------------------------------- the generators, on their own

gatewayVars ==
    <<appKeys, devOpsNumbers, blacklist, now, phase, in, out,
      history, mu, clock, cmd, res, pc, loc, grants>>

notTokenVars == <<gatewayVars, keyVars, storeVars, clientVars, flowVars>>
notKeyVars == <<gatewayVars, tokenVars, storeVars, clientVars, flowVars>>
notStoreVars == <<gatewayVars, tokenVars, keyVars, clientVars, flowVars>>
notClientVars == <<gatewayVars, tokenVars, keyVars, storeVars, flowVars>>

\* The agent client asks for a token for the user (addAuthHeader).
IssueToken ==
    /\ \E userID \in Subjects :
         issued' = [by |-> "Token", subject |-> userID, audience |-> "",
                    token |-> JWTGenerator_Token(generator.jwt, userID, instant),
                    at |-> instant]
    /\ UNCHANGED <<generator, instant>>
    /\ UNCHANGED notTokenVars

\* The verification handler asks for a callback token for a tenant.
IssueWithAudience ==
    /\ \E userID \in Subjects, audience \in Audiences :
         issued' = [by |-> "TokenWithAudience", subject |-> userID,
                    audience |-> audience,
                    token |-> JWTGenerator_TokenWithAudience(
                                  generator.jwt, userID, audience, instant),
                    at |-> instant]
    /\ UNCHANGED <<generator, instant>>
    /\ UNCHANGED notTokenVars

\* The login handler asks for a login assertion.
IssueOAuth ==
    /\ \E phone \in Subjects :
         issued' = [by |-> "OAuthToken", subject |-> phone, audience |-> "",
                    token |-> OAuthTokenGenerator_Token(
                                  generator.oauth, phone, GoodNonce, GoodKey, instant),
                    at |-> instant]
    /\ UNCHANGED <<generator, instant>>
    /\ UNCHANGED notTokenVars

\* Time passes between two calls of a generator.
Elapse ==
    /\ instant < MaxInstant
    /\ instant' = instant + 1
    /\ UNCHANGED <<generator, issued>>
    /\ UNCHANGED notTokenVars

\* The generators built from any configuration.
InitToken ==
    /\ InitGateway
    /\ ~blacklist
    /\ devOpsNumbers = {}
    /\ generator \in [jwt : JWTGenerators, oauth : OAuthTokenGenerators]
    /\ instant = 0
    /\ issued = NoIssue
    /\ KeysIdle
    /\ StoreIdle
    /\ ClientIdle
    /\ FlowsIdle

NextToken == IssueToken \/ IssueWithAudience \/ IssueOAuth \/ Elapse

SpecToken == InitToken /\ [][NextToken]_vars

\* ------------------------------------------------- the key registry, loading

\* The operator puts something at the path of a key file.
WriteKeyFile ==
    /\ \E p \in KeyPaths, f \in FileStates :
         keyFiles' = [keyFiles EXCEPT ![p] = f]
    /\ UNCHANGED registry
    /\ UNCHANGED notKeyVars

\* main calls NewKeyRegistry(cfg.Verification.Apps), once.
LoadRegistry ==
    /\ ~registry.loaded
    /\ \E apps \in AppConfigs :
         \E order \in Orders(apps) :
            registry' = Loaded(apps, order, keyFiles)
    /\ UNCHANGED keyFiles
    /\ UNCHANGED notKeyVars

\* The gateway before the registry is loaded, whatever the key files hold.
InitKeys ==
    /\ InitGateway
    /\ ~blacklist
    /\ devOpsNumbers = {}
    /\ TokenIdle
    /\ keyFiles \in [KeyPaths -> FileStates]
    /\ registry = NotLoaded
    /\ StoreIdle
    /\ ClientIdle
    /\ FlowsIdle

NextKeys == WriteKeyFile \/ LoadRegistry

SpecKeys == InitKeys /\ [][NextKeys]_vars

\* ------------------------------------------------ the blacklist store, alone

\* The operator or the handler asks whether a phone is listed.
CallIsBlacklisted ==
    /\ \E phone \in StorePhones, db \in DBStates :
         LET r == IsBlacklisted(table, phone, db)
         IN  call' = [op |-> "is", phone |-> phone, reason |-> "", db |-> db,
                      found |-> r.found, err |-> r.err]
    /\ UNCHANGED <<table, latest>>
    /\ UNCHANGED notStoreVars

\* The operator lists a phone.
CallAddBlacklist ==
    /\ \E phone \in StorePhones, reason \in Reasons, db \in DBStates :
         LET r == AddBlacklist(table, phone, reason, db)
         IN  /\ table' = r.rows
             /\ call' = [op |-> "add", phone |-> phone, reason |-> reason, db |-> db,
                         found |-> FALSE, err |-> r.err]
             /\ latest' = IF r.err THEN latest
                          ELSE [latest EXCEPT ![phone] = "add"]
    /\ UNCHANGED notStoreVars

\* The operator takes a phone off the list.
CallRemoveBlacklist ==
    /\ \E phone \in StorePhones, db \in DBStates :
         LET r == RemoveBlacklist(table, phone, db)
         IN  /\ table' = r.rows
             /\ call' = [op |-> "remove", phone |-> phone, reason |-> "", db |-> db,
                         found |-> FALSE, err |-> r.err]
             /\ latest' = IF r.err THEN latest
                          ELSE [latest EXCEPT ![phone] = "remove"]
    /\ UNCHANGED notStoreVars

InitStore ==
    /\ Init
    /\ blacklist
    /\ devOpsNumbers = {}

NextStore == CallIsBlacklisted \/ CallAddBlacklist \/ CallRemoveBlacklist

SpecStore == InitStore /\ [][NextStore]_vars

\* ---------------------------------------------------- the message pipeline

\* A message event arrives and handleMessage runs on it to the end.
HandleEvent ==
    /\ ~event.arrived
    /\ \E msg \in Messages, agent \in AgentAnswers :
         \E env \in Envs(handler, msg.Sender, msg.text, now) :
            LET e == [verify |-> env, agent |-> agent]
            IN  /\ event' = [arrived |-> TRUE, msg |-> msg, env |-> e]
                /\ routed' = handleMessage(client, handler, msg, now, e)
    /\ UNCHANGED client
    /\ UNCHANGED notClientVars

\* handleMessage returns; the event handler waits for the next event.
ReturnEvent ==
    /\ event.arrived
    /\ event' = NoEvent
    /\ routed' = Routed(<<>>, <<>>, <<>>, NoOut)
    /\ UNCHANGED client
    /\ UNCHANGED notClientVars

\* The gateway with or without a verification handler, with or without a
\* whitelist.
InitClient ==
    /\ InitGateway
    /\ TokenIdle
    /\ KeysIdle
    /\ StoreIdle
    /\ client \in [verifyHandler : BOOLEAN, whitelist : Whitelists]
    /\ event = NoEvent
    /\ routed = Routed(<<>>, <<>>, <<>>, NoOut)
    /\ FlowsIdle

NextClient == HandleEvent \/ ReturnEvent

SpecClient == InitClient /\ [][NextClient]_vars

\* ------------------------------------------------------ flows, side by side

\* The messages of the concurrent flows: tokens of tenant appA with a good
\* or a bad signature, for the sender's phone or another, and two senders.
FlowSenders == { <<"9", "1">>, <<"1", "2">> }
FlowBodies ==
    {b \in JWTBodies :
        /\ b.pad = ""
        /\ b.alg = "RS256"
        /\ b.sig \in {"kA", BadSig}
        /\ b.mobile \in { <<"+", "9", "1">>, <<"1", "2">> }
        /\ b.app_name = "appA"
        /\ b.callback_url = <<"https://a.example/wa", "/callback?challenge_id=", "c1">>
        /\ b.challenge_id = "c1"
        /\ b.exp = MaxTime - 1}

\* The login texts of the concurrent flows: a command and a malformed one.
FlowTexts == { Command(AUTH, <<" ">>, GoodKey, GoodNonce), AUTH \o <<" ">> \o GoodKey }

\* The variables the flows leave alone.
notFlowVars ==
    <<appKeys, devOpsNumbers, blacklist, now, phase, in, out,
      clock, cmd, res, pc, loc, grants,
      tokenVars, keyVars, storeVars, clientVars>>

\* Handle that takes the handler-wide mutex before it dispatches the
\* callback and does not give it back.
BeginHandle_HoldsLock(w) ==
    /\ flow[w].pc = "idle"
    /\ \E senderPhone \in FlowSenders, messageBody \in FlowBodies :
         \E env \in Envs(handler, senderPhone, messageBody, now) :
            LET o == Handle(handler, senderPhone, messageBody, now, env)
                started == [NoFlow EXCEPT !.kind = "verify", !.sender = senderPhone,
                                          !.body = messageBody, !.t = now]
            IN  IF o.callbacks # <<>>
                THEN /\ mu = NoHolder
                     /\ mu' = w
                     /\ flow' = [flow EXCEPT ![w] =
                                   [started EXCEPT !.pc = "posting",
                                       !.env = [env EXCEPT !.http = UnusedHTTP],
                                       !.out = [NoOut EXCEPT !.jwt = o.jwt,
                                                    !.callbacks = o.callbacks]]]
                ELSE /\ mu' = mu
                     /\ flow' = [flow EXCEPT ![w] =
                                   [started EXCEPT !.pc = "done", !.env = env,
                                                   !.out = o]]
    /\ UNCHANGED history
    /\ UNCHANGED notFlowVars

\* A goroutine runs Handler.Handle on a message: up to a return before the
\* callback, or up to httpClient.Do, where it waits for the response with
\* the request on the wire.
BeginHandle(w) ==
    /\ flow[w].pc = "idle"
    /\ \E senderPhone \in FlowSenders, messageBody \in FlowBodies :
         \E env \in Envs(handler, senderPhone, messageBody, now) :
            LET o == Handle(handler, senderPhone, messageBody, now, env)
                started == [NoFlow EXCEPT !.kind = "verify", !.sender = senderPhone,
                                          !.body = messageBody, !.t = now]
            IN  IF o.callbacks # <<>>
                THEN flow' = [flow EXCEPT ![w] =
                                [started EXCEPT !.pc = "posting",
                                    !.env = [env EXCEPT !.http = UnusedHTTP],
                                    !.out = [NoOut EXCEPT !.jwt = o.jwt,
                                                 !.callbacks = o.callbacks]]]
                ELSE flow' = [flow EXCEPT ![w] =
                                [started EXCEPT !.pc = "done", !.env = env,
                                                !.out = o]]
    /\ UNCHANGED <<history, mu>>
    /\ UNCHANGED notFlowVars

\* httpClient.Do returns with what the network made of the request, and
\* Handle runs to its end.
EndHandle(w) ==
    /\ flow[w].pc = "posting"
    /\ \E answer \in HTTPOutcomes :
         LET env == [flow[w].env EXCEPT !.http = answer]
         IN  flow' = [flow EXCEPT ![w].pc = "done",
                                  ![w].env = env,
                                  ![w].out = Handle(handler, flow[w].sender,
                                                    flow[w].body, flow[w].t, env)]
    /\ UNCHANGED <<history, mu>>
    /\ UNCHANGED notFlowVars

\* A goroutine runs OAuthHandler.Handle on a text, up to a rejection or up
\* to the call of checkRateLimit.
BeginAuth(w) ==
    /\ flow[w].pc = "idle"
    /\ \E senderPhone \in AuthSenders, messageBody \in FlowTexts :
         LET o == OAuthHandle(oauthHandler, history, senderPhone, messageBody, clock)
             matches == authCommandRe(TrimSpace(messageBody))
             started == [NoFlow EXCEPT !.kind = "login", !.sender = senderPhone,
                                       !.text = messageBody]
         IN  IF o.asked
             THEN flow' = [flow EXCEPT ![w] = [started EXCEPT !.pc = "lock",
                                                   !.userPubKey = matches.key,
                                                   !.nonce = matches.nonce]]
             ELSE flow' = [flow EXCEPT ![w] = [started EXCEPT !.pc = "done",
                                                              !.reply = o.reply]]
    /\ UNCHANGED <<history, mu>>
    /\ UNCHANGED notFlowVars

\* checkRateLimit: h.mu.Lock()
LockAuth(w) ==
    /\ flow[w].pc = "lock"
    /\ mu = NoHolder
    /\ mu' = w
    /\ flow' = [flow EXCEPT ![w].pc = "check"]
    /\ UNCHANGED history
    /\ UNCHANGED notFlowVars

\* checkRateLimit under the mutex, to its return with the deferred
\* h.mu.Unlock(); a denied flow ends with the throttling reply.
CheckAuth(w) ==
    /\ flow[w].pc = "check"
    /\ LET rate == checkRateLimit(history, flow[w].sender, clock)
       IN  /\ history' = rate.history
           /\ flow' = IF rate.ok
                      THEN [flow EXCEPT ![w].pc = "sign"]
                      ELSE [flow EXCEPT ![w].pc = "done",
                                        ![w].reply = oauthReplies.TooMany]
    /\ mu' = NoHolder
    /\ UNCHANGED notFlowVars

\* h.tokenGen.Token and the deep link.
SignAuth(w) ==
    /\ flow[w].pc = "sign"
    /\ LET tokenStr == OAuthToken(flow[w].sender, flow[w].nonce,
                                   flow[w].userPubKey, clock)
       IN  flow' = [flow EXCEPT ![w].pc = "done",
                                ![w].reply = oauthReplies.Link,
                                ![w].link = DeepLink(oauthHandler.spaURL, tokenStr,
                                                     flow[w].nonce)]
    /\ UNCHANGED <<history, mu>>
    /\ UNCHANGED notFlowVars

\* The caller takes the reply and the goroutine is free for the next
\* message.
EndFlow(w) ==
    /\ flow[w].pc = "done"
    /\ flow' = [flow EXCEPT ![w] = NoFlow]
    /\ UNCHANGED <<history, mu>>
    /\ UNCHANGED notFlowVars

\* The gateway with its blacklist store configured.
InitFlows ==
    /\ Init
    /\ blacklist

\* What a goroutine can do next.
StepFlow(w) ==
    \/ BeginHandle(w)
    \/ EndHandle(w)
    \/ BeginAuth(w)
    \/ LockAuth(w)
    \/ CheckAuth(w)
    \/ SignAuth(w)
    \/ EndFlow(w)

NextFlows ==
    \/ \E w \in Workers : BeginHandle(w)
    \/ \E w \in Workers : EndHandle(w)
    \/ \E w \in Workers : BeginAuth(w)
    \/ \E w \in Workers : LockAuth(w)
    \/ \E w \in Workers : CheckAuth(w)
    \/ \E w \in Workers : SignAuth(w)
    \/ \E w \in Workers : EndFlow(w)

SpecFlows == InitFlows /\ [][NextFlows]_vars

\* ------------------------------------------------------ reading the state

Handled == phase = "handled"

\* Handle called the named collaborator / ran the named step.
Reached(step) == \E i \in 1..Len(out.trace) : out.trace[i] = step

\* The app_name of the message names a registered tenant.
TenantKnown == in.body.app_name \in DOMAIN appKeys

\* The signature segment was made with the key registered for app_name,
\* under an algorithm of the tenant's scheme.
TenantSigned ==
    /\ in.body.kind = "jwt"
    /\ TenantKnown
    /\ in.body.sig = appKeys[in.body.app_name]

\* The blacklist collaborator did not stop the flow.
NotBlacklisted == in.env.bl \notin {"blocked", "error"}

\* The status code of the response Do handed to postCallback.
FinalStatus == in.env.http.chain[Len(in.env.http.chain)]

\* Do returned a response (not an error).
GotResponse == Reached("post") /\ ~in.env.http.neterr

\* Every answer the collaborators could give, reached or not.
FullEnvs == [bl : {"clear", "blocked", "error"}, sign : {"ok", "fail"}, http : HTTPOutcomes]

\* full gives the same answers as the ones recorded in used.
Agrees(used, full) ==
    /\ used.bl \in {Unused, full.bl}
    /\ used.sign \in {Unused, full.sign}
    /\ used.http \in {UnusedHTTP, full.http}

\* The destinations of the callbacks of an outcome.
Destinations(o) == [i \in 1..Len(o.callbacks) |-> o.callbacks[i].url]

\* ------------------------------------------------------------------ claims

\* C1: a message carrying a tenant-signed, unexpired assertion from a
\* non-blacklisted sender whose normalized identity equals the normalized
\* mobile claim makes Handle dispatch exactly one callback whose assertion
\* has challenge_id equal to the inbound challenge_id and aud equal to
\* app_name.  Stated for the messages most favourable to the code: the text
\* is the bare token, the token also carries a callback_url, and signing the
\* callback assertion succeeds.
C1_OneCallbackBoundToChallenge ==
    ( /\ Handled
      /\ TenantSigned
      /\ in.body.alg = "RS256"
      /\ in.body.pad = ""
      /\ in.body.callback_url # <<>>
      /\ in.body.challenge_id # ""
      /\ in.body.exp # NoExp
      /\ now < in.body.exp
      /\ NotBlacklisted
      /\ in.env.sign # "fail"
      /\ normalizePhone(in.sender) = normalizePhone(in.body.mobile) )
    => /\ Len(out.callbacks) = 1
       /\ GetClaim(out.callbacks[1].authorization, "challenge_id") = in.body.challenge_id
       /\ GetClaim(out.callbacks[1].authorization, "aud") = <<in.body.app_name>>

\* C2: every callback Handle dispatches is a POST to
\* <callback_base_url>/callback?challenge_id=<challenge_id>, with the
\* callback_base_url configured for the tenant named by app_name.
C2_CallbackURLFromStaticConfig ==
    Handled =>
        \A i \in 1..Len(out.callbacks) :
            /\ out.callbacks[i].method = "POST"
            /\ out.callbacks[i].url =
                  <<CallbackBaseURL[in.body.app_name], "/callback?challenge_id=",
                    in.body.challenge_id>>

\* C3: callback_url is inert: a token that differs from the handled one only
\* in the presence or value of callback_url, handled by the same handler for
\* the same sender at the same time with the same collaborator answers, gets
\* the same reply and its callback goes to the same destination.
C3_CallbackURLInert ==
    (Handled /\ in.body.kind = "jwt") =>
        \A url \in CallbackURLs, env \in FullEnvs :
            Agrees(in.env, env) =>
                LET twin == Handle(handler, in.sender,
                                   [in.body EXCEPT !.callback_url = url], now, env)
                IN  /\ twin.reply = out.reply
                    /\ Destinations(twin) = Destinations(out)

\* C10: a 3xx response to the callback POST is not followed and is a
\* failure (generic error reply); only a 2xx response is a success.
C10_RedirectIsFailure ==
    (Handled /\ GotResponse) =>
        /\ in.env.http.chain[1] \in 300..399 =>
              Len(out.wire) = 1 /\ out.reply = messages.Error
        /\ out.reply = messages.Success => FinalStatus \in 200..299

\* C4: an assertion signed with a key other than the one registered for the
\* tenant named by its app_name never produces a callback, and when the
\* flow gets to the full verification, the verification fails and the reply
\* is the expired/invalid one.
C4_WrongKeyRejected ==
    ( /\ Handled
      /\ in.body.kind = "jwt"
      /\ TenantKnown
      /\ in.body.sig # appKeys[in.body.app_name] )
    => /\ out.callbacks = <<>>
       /\ out.wire = <<>>
       /\ Reached("verify") =>
             out.verifyErr # "" /\ out.reply = messages.Expired

\* C4 happens: a well-formed, unexpired RS256 token for appA signed with
\* tenant B's key, from the matching sender, is rejected for its signature.
C4_Witness ==
    /\ Handled
    /\ in.body.app_name = "appA"
    /\ in.body.sig = "kB"
    /\ in.body.alg = "RS256"
    /\ in.body.pad = ""
    /\ in.body.challenge_id # ""
    /\ in.body.exp # NoExp
    /\ now < in.body.exp
    /\ normalizePhone(in.sender) = normalizePhone(in.body.mobile)
    /\ out.verifyErr = "signature_invalid"
    /\ out.reply = messages.Expired

C6_BlacklistedStopsFlow ==
    (Handled /\ in.env.bl = "blocked")
    => /\ out.reply = messages.Blacklisted
       /\ ~Reached("lookup")
       /\ ~Reached("verify")
       /\ ~Reached("sign")
       /\ ~Reached("post")
       /\ out.callbacks = <<>>
       /\ out.wire = <<>>

\* C6 happens: a blocked sender presents a token that would otherwise pass
\* every gate.
C6_Witness ==
    /\ Handled
    /\ in.env.bl = "blocked"
    /\ TenantSigned
    /\ in.body.alg = "RS256"
    /\ in.body.pad = ""
    /\ in.body.challenge_id # ""
    /\ in.body.exp # NoExp
    /\ now < in.body.exp
    /\ normalizePhone(in.sender) = normalizePhone(in.body.mobile)
    /\ out.reply = messages.Blacklisted

\* C7: for a verified assertion whose normalized mobile differs from the
\* normalized sender: a sender outside the devops set gets the
\* phone-mismatch reply and no callback; for a sender in the devops set the
\* flow goes on to signing and every callback carries the sender's identity
\* as user_id; with an empty devops set the mismatch is never overridden.
C7_PhoneMismatchAndDevOps ==
    ( /\ Handled
      /\ Reached("verify")
      /\ out.verifyErr = ""
      /\ normalizePhone(in.sender) # normalizePhone(in.body.mobile) )
    => /\ normalizePhone(in.sender) \notin devOpsNumbers =>
             out.reply = messages.PhoneMismatch /\ out.callbacks = <<>> /\ out.wire = <<>>
       /\ normalizePhone(in.sender) \in devOpsNumbers =>
             /\ out.reply # messages.PhoneMismatch
             /\ Reached("sign")
             /\ in.env.sign = "ok" => Len(out.callbacks) = 1
             /\ \A i \in 1..Len(out.callbacks) :
                   /\ GetClaim(out.callbacks[i].authorization, "user_id") = normalizePhone(in.sender)
                   /\ GetClaim(out.callbacks[i].authorization, "user_id") # normalizePhone(in.body.mobile)
       /\ devOpsNumbers = {} => out.reply = messages.PhoneMismatch

\* C7 happens: the devops number sends a token issued for another mobile and
\* the callback goes out in the sender's name.
C7_Witness ==
    /\ Handled
    /\ out.verifyErr = ""
    /\ Reached("post")
    /\ normalizePhone(in.sender) # normalizePhone(in.body.mobile)
    /\ normalizePhone(in.sender) \in devOpsNumbers
    /\ out.reply = messages.Success
    /\ Len(out.callbacks) = 1
    /\ GetClaim(out.callbacks[1].authorization, "user_id") = <<"9", "9">>

\* C8: when the app_name of a candidate token names no registered tenant,
\* the key lookup is answered with the generic error reply: no signature
\* verification and no callback.
C8_UnknownTenant ==
    ( /\ Handled
      /\ Reached("lookup")
      /\ ~TenantKnown )
    => /\ out.reply = messages.Error
       /\ ~Reached("verify")
       /\ ~Reached("sign")
       /\ ~Reached("post")
       /\ out.callbacks = <<>>
       /\ out.wire = <<>>

\* C8 happens: a candidate token for the unregistered appZ gets to the
\* tenant lookup.
C8_Witness ==
    /\ Handled
    /\ in.body.app_name = "appZ"
    /\ in.body.alg = "RS256"
    /\ in.body.sig \in TenantKeys
    /\ Reached("lookup")
    /\ out.reply = messages.Error

\* C9: once the callback is posted the reply follows from its outcome
\* alone: an error of the request or a status >= 400 gives the generic
\* error reply, a 2xx response gives the success reply, and the success
\* reply is never given after a failed callback.
C9_ReplyFollowsCallback ==
    (Handled /\ Reached("post"))
    => /\ in.env.http.neterr => out.reply = messages.Error
       /\ (GotResponse /\ FinalStatus >= 400) => out.reply = messages.Error
       /\ (GotResponse /\ FinalStatus \in 200..299) => out.reply = messages.Success
       /\ out.reply \in {messages.Error, messages.Success}
       /\ out.reply = messages.Success => (GotResponse /\ FinalStatus < 400)

\* C9 happens: every gate passed and the callback endpoint answers 500.
C9_Witness ==
    /\ Handled
    /\ Reached("post")
    /\ GotResponse
    /\ FinalStatus = 500
    /\ Len(out.callbacks) = 1
    /\ out.reply = messages.Error

\* C11: every message classified as a verification candidate gets exactly
\* one non-empty reply, one of the five configured texts, and Handle returns
\* the empty result exactly when the classification yields no candidate; in
\* that case nothing else of the flow ran.
C11_OneReplyPerCandidate ==
    Handled
    => /\ (out.reply = "") <=> IsVerificationToken(in.body).nil
       /\ ~IsVerificationToken(in.body).nil
            => /\ out.reply # ""
               /\ out.reply \in {messages.Success, messages.Expired,
                                  messages.PhoneMismatch, messages.Blacklisted,
                                  messages.Error}
       /\ IsVerificationToken(in.body).nil
            => /\ out.trace = <<"classify">>
               /\ out.wire = <<>>

\* C11 happens: a candidate whose blacklist lookup fails is answered with
\* the generic error text.
C11_Witness ==
    /\ Handled
    /\ ~IsVerificationToken(in.body).nil
    /\ in.env.bl = "error"
    /\ out.reply = messages.Error

\* The POST requests among the requests of an outcome.
Posts(o) == SelectSeq(o.wire, LAMBDA r : r.method = "POST")

\* C12: one Handle call makes at most one call of Do and sends at most one
\* POST; when Do fails (connection failure, timeout, cancelled or expired
\* context) or the response has status >= 400, the reply is the generic
\* error text and the POST was sent once, not again.
C12_NoRetry ==
    Handled
    => /\ Len(out.callbacks) <= 1
       /\ Len(Posts(out)) <= 1
       /\ (Reached("post") /\ in.env.http.neterr)
            => /\ out.reply = messages.Error
               /\ out.wire = out.callbacks
               /\ Len(out.wire) = 1
       /\ (GotResponse /\ FinalStatus >= 400)
            => /\ out.reply = messages.Error
               /\ Len(Posts(out)) = 1

\* C12 happens: every gate passed and Do returned an error.
C12_Witness ==
    /\ Handled
    /\ Reached("post")
    /\ in.env.http.neterr
    /\ out.reply = messages.Error
    /\ Len(out.wire) = 1

\* C13: when the blacklist lookup returns an error Handle replies with the
\* generic error text and does no tenant lookup, no signature verification,
\* no signing and no callback.
C13_BlacklistErrorFailsClosed ==
    (Handled /\ in.env.bl = "error")
    => /\ out.reply = messages.Error
       /\ ~Reached("lookup")
       /\ ~Reached("verify")
       /\ ~Reached("sign")
       /\ ~Reached("post")
       /\ out.callbacks = <<>>
       /\ out.wire = <<>>

\* C13 happens: the lookup fails for a message that would pass every other
\* gate.
C13_Witness ==
    /\ Handled
    /\ in.env.bl = "error"
    /\ TenantSigned
    /\ in.body.alg = "RS256"
    /\ in.body.pad = ""
    /\ in.body.challenge_id # ""
    /\ in.body.callback_url # <<>>
    /\ in.body.exp # NoExp
    /\ now < in.body.exp
    /\ normalizePhone(in.sender) = normalizePhone(in.body.mobile)
    /\ out.reply = messages.Error

\* The handler with a blacklist collaborator / with none.
WithBlacklist == [handler EXCEPT !.blacklist = TRUE]
WithoutBlacklist == [handler EXCEPT !.blacklist = FALSE]

\* Two outcomes with the same reply, callbacks, requests and token.
SameBehaviour(o1, o2) ==
    /\ o1.reply = o2.reply
    /\ o1.callbacks = o2.callbacks
    /\ o1.wire = o2.wire
    /\ o1.jwt = o2.jwt
    /\ o1.verifyErr = o2.verifyErr

\* C14: a handler without a blacklist collaborator behaves on every message
\* as the handler whose collaborator answers "not blacklisted" without
\* error, and conversely: same reply, same callback, same requests.
C14_NoBlacklistIsClear ==
    /\ (Handled /\ ~blacklist)
         => SameBehaviour(out, Handle(WithBlacklist, in.sender, in.body, now,
                                      [in.env EXCEPT !.bl = "clear"]))
    /\ (Handled /\ blacklist /\ in.env.bl = "clear")
         => SameBehaviour(out, Handle(WithoutBlacklist, in.sender, in.body, now,
                                      [in.env EXCEPT !.bl = Unused]))

\* C14 happens: a handler without a blacklist collaborator completes a
\* verification with a callback.
C14_Witness ==
    /\ Handled
    /\ ~blacklist
    /\ in.env.bl = Unused
    /\ Len(out.callbacks) = 1
    /\ out.reply = messages.Success

\* ------------------------------------------------ reading the login state

\* The characters of the texts that are not white space.
NonSpace == (DOMAIN UpperOf) \ WhiteSpace

\* The words of a text: its maximal runs of characters other than white
\* space, in order.
RECURSIVE Words(_)
Words(s) ==
    LET t == TrimLeft(s, WhiteSpace)
        e == RunEnd(t, 1, NonSpace)
    IN  IF t = <<>> THEN <<>>
        ELSE <<SubSeq(t, 1, e - 1)>> \o Words(SubSeq(t, e, Len(t)))

\* A 32-byte public key in unpadded base64url; a nonce long enough.
IsKeyArg(w) == Len(w) = PubKeyChars /\ Range(w) \subseteq Base64URLChars
IsNonceArg(w) == Len(w) >= NonceMinChars /\ Range(w) \subseteq Base64URLChars

\* The text has two arguments after its first word, a key and a nonce.
TwoGoodArgs(text) ==
    /\ Len(Words(text)) = 3
    /\ IsKeyArg(Words(text)[2])
    /\ IsNonceArg(Words(text)[3])

\* A login command in the documented spelling: the keyword AUTH, a key and
\* a nonce, with white space between and around them.
WellFormed(text) == TwoGoodArgs(text) /\ Words(text)[1] = AUTH

\* Handle stopped before the rate limiter or was let through by it.
NotRateLimited == res.reply # oauthReplies.TooMany

\* The letter, whatever its case.
AnyCase(c, letter) == c = letter \/ UpperOf[c] = letter

\* ------------------------------------------------------------ login claims

\* C15: a sender never holds more than rateLimit admissions granted within
\* one window; a request that reaches the admission check is denied, with
\* the throttling reply, only when rateLimit admissions of its sender lie
\* within the window ending now, and is otherwise granted; so the first
\* rateLimit requests of a window are admitted, the next is denied, and an
\* admission succeeds again once earlier ones have left the window.  Every
\* well-formed command reaches the admission check.
C15_FirstNAdmitted ==
    /\ \A p \in AuthSenders : Len(grants[p]) <= rateLimit
    /\ (Handled /\ WellFormed(cmd.text)) => res.asked
    /\ (Handled /\ res.asked)
         => /\ res.reply \in {oauthReplies.TooMany, oauthReplies.Link}
            /\ res.reply = oauthReplies.TooMany
                 => /\ Len(grants[cmd.sender]) = rateLimit
                    /\ res.link = NoLink
            /\ res.reply = oauthReplies.Link
                 => /\ grants[cmd.sender][Len(grants[cmd.sender])] = clock
                    /\ res.link # NoLink

\* C15 happens: a well-formed command is denied after the window has moved
\* on: the rateLimit admissions that fill it were all granted after the
\* first instant.
C15_Witness ==
    /\ Handled
    /\ WellFormed(cmd.text)
    /\ res.reply = oauthReplies.TooMany
    /\ Len(grants[cmd.sender]) = rateLimit
    /\ clock >= Window
    /\ \A i \in 1..rateLimit : grants[cmd.sender][i] > 0

\* A step of a goroutine inside checkRateLimit.
StepOf(w) == pc'[w] # pc[w]

\* C16: under every interleaving of the goroutines in checkRateLimit, no
\* sender holds more than rateLimit admissions granted within one window;
\* when nobody is inside the critical section the stored bucket of every
\* sender holds each admission granted within the window (none is lost);
\* and a check changes no other sender's bucket, its result depending on
\* the admissions of its own sender alone.
C16_SafeUnderConcurrency ==
    [][ /\ \A p \in AuthSenders : \A T \in 0..clock' :
             Len(Recent(SelectSeq(grants'[p], LAMBDA x : x <= T), T)) <= rateLimit
        /\ mu' = NoHolder
             => \A p \in AuthSenders :
                    Recent(Bucket(history', p), clock') = Recent(grants'[p], clock')
        /\ \A w \in Workers :
             StepOf(w)
             => /\ \A p \in AuthSenders \ {loc'[w].phone} :
                      /\ Bucket(history', p) = Bucket(history, p)
                      /\ (p \in DOMAIN history') = (p \in DOMAIN history)
                      /\ grants'[p] = grants[p]
                /\ pc[w] = "write"
                     => loc'[w].ok =
                            (Len(Recent(grants[loc[w].phone], loc[w].now)) < rateLimit)
      ]_vars

\* C16 happens: two goroutines are in checkRateLimit for the same sender,
\* one waiting for the mutex while the other, holding it, has just been
\* denied.
C16_Witness ==
    \E w1, w2 \in Workers :
        /\ w1 # w2
        /\ pc[w1] = "unlock"
        /\ ~loc[w1].ok
        /\ mu = w1
        /\ pc[w2] = "lock"
        /\ loc[w2].phone = loc[w1].phone

\* C17: a check that finds rateLimit or more timestamps of the sender
\* within the window is denied and leaves the in-window timestamps of the
\* bucket as they were; any other check is granted and leaves the in-window
\* timestamps with the current time appended.
C17_DeniedRecordsNothing ==
    [][ (phase = "idle" /\ phase' = "handled" /\ res'.asked)
        => LET before == Recent(Bucket(history, cmd'.sender), clock)
               after == Bucket(history', cmd'.sender)
           IN  IF Len(before) >= rateLimit
               THEN /\ res'.reply = oauthReplies.TooMany
                    /\ Recent(after, clock) = before
               ELSE /\ res'.reply = oauthReplies.Link
                    /\ after = Append(before, clock)
      ]_vars

\* C17 happens: a check is denied on a bucket that holds rateLimit
\* timestamps, not all of them of the current instant.
C17_Witness ==
    /\ Handled
    /\ res.asked
    /\ res.reply = oauthReplies.TooMany
    /\ Len(Bucket(history, cmd.sender)) = rateLimit
    /\ Bucket(history, cmd.sender)[1] < clock

\* C18: for every login command in the documented spelling (the keyword
\* AUTH, a key, a nonce) from a sender that is not rate-limited, Handle
\* returns without error the reply with the deep link
\* <base_url>/auth#token=<token>&nonce=<nonce>: base_url is the SPA URL
\* without its trailing slash, nonce the command's nonce, token an EdDSA
\* token of the gateway key whose sub, nonce and pubkey are the sender's
\* phone, the command's nonce and the command's key.
C18_DeepLinkBindsCommand ==
    (Handled /\ WellFormed(cmd.text) /\ NotRateLimited)
    => /\ res.reply = oauthReplies.Link
       /\ ~res.err
       /\ res.link.base = <<"https://chat.example.com">>
       /\ res.link.path = "/auth#token="
       /\ res.link.sep = "&nonce="
       /\ res.link.nonce = Words(cmd.text)[3]
       /\ res.link.token.alg = "EdDSA"
       /\ res.link.token.sig = OAuthKey
       /\ res.link.token.payload.sub = cmd.sender
       /\ res.link.token.payload.nonce = Words(cmd.text)[3]
       /\ res.link.token.payload.pubkey = Words(cmd.text)[2]

\* C18 happens: a command with white space around it, from a sender whose
\* phone is not in normal form, gets its deep link.
C18_Witness ==
    /\ Handled
    /\ WellFormed(cmd.text)
    /\ cmd.text[1] = " "
    /\ cmd.sender = <<"+", "1", "2">>
    /\ res.reply = oauthReplies.Link
    /\ res.link.token.payload.sub = cmd.sender

\* C19: for every text that IsAuthCommand accepts and whose two arguments
\* are a 32-byte key in base64url and a nonce of at least the minimum
\* length, Handle, when the sender is not rate-limited, issues a token and
\* does not return the malformed-command rejection, whatever the case of
\* the letters of the keyword.
C19_KeywordCaseInsensitive ==
    (Handled /\ cmd.routed /\ TwoGoodArgs(cmd.text) /\ NotRateLimited)
    => /\ res.reply # oauthReplies.InvalidFormat
       /\ res.link # NoLink

\* C20: IsAuthCommand is true exactly of the texts that, after leading and
\* trailing white space, consist of the letters A, U, T, H in any case, a
\* space and at least one further character that is not white space; so a
\* longer word that starts with the keyword, a text that starts with
\* another word, the keyword alone and the empty text are not commands.
C20_IsCommand ==
    Handled
    => ( cmd.routed
         <=> \E i \in 1..Len(cmd.text) :
                /\ \A k \in 1..(i - 1) : cmd.text[k] \in WhiteSpace
                /\ Len(cmd.text) >= i + Len(AUTH) + 1
                /\ \A k \in 1..Len(AUTH) : AnyCase(cmd.text[i + k - 1], AUTH[k])
                /\ cmd.text[i + Len(AUTH)] = " "
                /\ \E j \in (i + Len(AUTH) + 1)..Len(cmd.text) :
                      cmd.text[j] \notin WhiteSpace )

\* C20 happens: the keyword in lower case after leading blanks is a
\* command.
C20_Witness ==
    /\ Handled
    /\ cmd.routed
    /\ cmd.text[1] = " "
    /\ \E i \in 1..Len(cmd.text) : cmd.text[i] = "a"

\* C21: for every text that is not the keyword followed by exactly two
\* words, a 32-byte key in base64url and a nonce of at least the minimum
\* length, Handle returns one of its rejection replies, returns no error and
\* issues no token.  The texts covered include those whose keyword is in
\* another case and those whose key carries the padding character.
C21_MalformedRejected ==
    (Handled /\ ~WellFormed(cmd.text))
    => /\ res.reply \in {oauthReplies.InvalidFormat, oauthReplies.InvalidEncoding,
                         oauthReplies.InvalidLength}
       /\ ~res.err
       /\ res.link = NoLink

\* C21 happens: a command whose key ends in the padding character passes
\* the pattern and is rejected by the decoder.
C21_Witness ==
    /\ Handled
    /\ Len(Words(cmd.text)) = 3
    /\ Words(cmd.text)[2] = GoodKey \o <<"=">>
    /\ res.reply = oauthReplies.InvalidEncoding
    /\ res.link = NoLink

\* C22: Handle goes past the classification exactly when the text is a
\* compact token whose payload carries non-empty mobile, app_name and
\* challenge_id, whatever its signature, algorithm and expiry.
C22_ClassifyOnChallengeID ==
    Handled
    => ( out.trace # <<"classify">>
         <=> /\ in.body.kind = "jwt"
             /\ in.body.mobile # <<>>
             /\ in.body.app_name # ""
             /\ in.body.challenge_id # "" )

\* C23: the full verification rejects every token whose header declares an
\* algorithm other than RS256, whoever made the signature.
C23_AlgorithmPinned ==
    (Handled /\ Reached("verify") /\ in.body.alg # "RS256")
    => out.verifyErr # ""

\* ------------------------------------------------- reading the issued token

Issued == issued.by # ""

\* The generator that issued the token, and the token parsed back under that
\* generator's public key at the instant of issue.
IssuerOf == IF issued.by = "OAuthToken" THEN generator.oauth ELSE generator.jwt
Parsed == ParseWithClaims(issued.token, IssuerOf.key, issued.at)

\* The audience the issuing method declares: that of the call, or the
\* configured one (none when the gateway generator has none configured).
DeclaredAudience ==
    CASE issued.by = "TokenWithAudience" -> <<issued.audience>>
      [] issued.by = "OAuthToken" -> <<IssuerOf.audience>>
      [] OTHER -> IF IssuerOf.audience = "" THEN <<>> ELSE <<IssuerOf.audience>>

\* The claim that names the subject: sub in a login assertion, user_id in a
\* gateway token.
SubjectClaim ==
    IF issued.by = "OAuthToken"
    THEN Field(Parsed.claims, "sub", <<>>)
    ELSE Field(Parsed.claims, "user_id", <<>>)

RoundTrip ==
    /\ Parsed.err = ""
    /\ Field(Parsed.claims, "iss", "") = IssuerOf.issuer
    /\ Field(Parsed.claims, "aud", <<>>) = DeclaredAudience
    /\ SubjectClaim = issued.subject
    /\ Field(Parsed.claims, "exp", 0) - Field(Parsed.claims, "iat", 0) = IssuerOf.ttl

\* A TTL of a positive whole number of seconds.
WholeSeconds(d) == d > 0 /\ d % TicksPerSecond = 0

\* C24: every token issued by the RS256 generator or by the EdDSA generator
\* parses back under the generator's public key with iss the configured
\* issuer, aud the declared audience, the subject passed in, and exp minus
\* iat equal to the configured TTL.
C24_RoundTrip == Issued => RoundTrip

\* C24, amended: the round trip holds for every token issued by a generator
\* whose TTL is a positive whole number of seconds.
C24_RoundTripWholeSeconds ==
    (Issued /\ WholeSeconds(IssuerOf.ttl)) => RoundTrip

\* C24 happens: a login assertion and a gateway token issued in the middle
\* of a second, under a TTL of whole seconds, parse back unchanged.
C24_Witness ==
    /\ Issued
    /\ issued.by \in {"OAuthToken", "Token"}
    /\ WholeSeconds(IssuerOf.ttl)
    /\ issued.at % TicksPerSecond # 0
    /\ IssuerOf.issuer # ""
    /\ RoundTrip

\* C25: TokenWithAudience puts in aud the audience of the call and not the
\* configured one; Token puts in aud the configured audience; both carry
\* the channel claim "whatsapp" and the user passed in.
C25_AudienceOfTheCall ==
    Issued /\ issued.by # "OAuthToken"
    => /\ Field(issued.token.payload, "aud", <<>>)
            = IF issued.by = "TokenWithAudience"
              THEN <<issued.audience>>
              ELSE IF generator.jwt.audience = "" THEN <<>>
              ELSE <<generator.jwt.audience>>
       /\ Field(issued.token.payload, "channel", "") = "whatsapp"
       /\ Field(issued.token.payload, "user_id", <<>>) = issued.subject

\* C25 happens: a generator with a configured audience issues a callback
\* token for another audience.
C25_Witness ==
    /\ issued.by = "TokenWithAudience"
    /\ generator.jwt.audience # ""
    /\ issued.audience \notin {"", generator.jwt.audience}
    /\ issued.token.payload["aud"] = <<issued.audience>>
    /\ issued.token.payload["channel"] = "whatsapp"

\* --------------------------------------------------- reading the registry

\* The key of the tenant loads from what its file held when it was read.
Loads(a) == registry.read[registry.apps[a]] \in TenantKeys

\* C26: when the key file of some configured tenant is missing, unparseable
\* or not an RSA public key, NewKeyRegistry returns no registry and an error
\* that names a tenant whose key does not load; otherwise it returns a
\* registry that holds the key of every configured tenant.
C26_LoadAllOrNothing ==
    registry.loaded
    => IF \E a \in DOMAIN registry.apps : ~Loads(a)
       THEN /\ registry.nil
            /\ registry.appKeys = NoApps
            /\ registry.err.app \in DOMAIN registry.apps
            /\ ~Loads(registry.err.app)
            /\ registry.err.cause # ""
       ELSE /\ ~registry.nil
            /\ registry.err = NoLoadError
            /\ DOMAIN registry.appKeys = DOMAIN registry.apps
            /\ \A a \in DOMAIN registry.apps :
                 registry.appKeys[a] = registry.read[registry.apps[a]]

\* C26 happens: of two configured tenants one has a good key and the other
\* a key that is not RSA; the load fails and names the other.
C26_Witness ==
    /\ registry.loaded
    /\ DOMAIN registry.apps = {"appA", "appB"}
    /\ Loads("appA")
    /\ registry.read[registry.apps["appB"]] = "ec"
    /\ registry.nil
    /\ registry.err = [app |-> "appB", cause |-> "key is not RSA"]

\* C27: no step of the gateway changes the registry, and a lookup returns
\* the key loaded for a configured tenant and fails for any other name; a
\* message naming an unknown tenant is answered with the error reply at the
\* lookup.
C27_RegistryReadOnly ==
    [][ /\ appKeys' = appKeys
        /\ \A a \in AppNames :
             GetAppPublicKey(appKeys', a)
               = IF a \in DOMAIN Apps
                 THEN [err |-> FALSE, key |-> Apps[a]]
                 ELSE [err |-> TRUE, key |-> BadSig]
        /\ (phase' = "handled" /\ out'.trace[Len(out'.trace)] = "lookup")
           <=> (/\ phase' = "handled"
                /\ Len(out'.trace) > 1
                /\ in'.body.app_name \notin DOMAIN Apps
                /\ in'.env.bl \notin {"blocked", "error"}) ]_vars

\* C27 happens: after messages were handled and time has passed, a message
\* naming an unknown tenant is refused at the lookup and the registry is the
\* one that was loaded.
C27_Witness ==
    /\ phase = "handled"
    /\ in.body.app_name = "appZ"
    /\ out.trace[Len(out.trace)] = "lookup"
    /\ out.reply = messages.Error
    /\ now > 0
    /\ appKeys = Apps

\* ------------------------------------------------------ reading the store

\* C28: after any sequence of AddBlacklist and RemoveBlacklist, IsBlacklisted
\* of a phone is true exactly when the last of them that the database
\* executed on that phone was an add; an add of a listed phone returns no
\* error and the phone keeps exactly one row; a remove changes the rows of no
\* other phone.
C28_LastOperationWins ==
    [][ /\ \A p \in StorePhones :
             /\ IsBlacklisted(table', p, "up")
                  = [found |-> latest'[p] = "add", err |-> FALSE]
             /\ Len(RowsOf(table', p)) <= 1
        /\ (call'.op = "is" /\ ~call'.err)
           => (call'.found <=> latest[call'.phone] = "add")
        /\ (call'.op = "add" /\ call'.db = "up")
           => /\ ~call'.err
              /\ Len(RowsOf(table', call'.phone)) = 1
              /\ RowsOf(table, call'.phone) # <<>> => table' = table
        /\ (call'.op = "remove")
           => \A q \in StorePhones \ {call'.phone} :
                RowsOf(table', q) = RowsOf(table, q) ]_vars

\* C28 happens: a listed phone was added again with another reason, without
\* error, and keeps its one row, while another phone was removed.
C28_Witness ==
    /\ call = [op |-> "add", phone |-> "910987654321", reason |-> "spam again",
               db |-> "up", found |-> FALSE, err |-> FALSE]
    /\ RowsOf(table, "910987654321")
         = << [phone |-> "910987654321", reason |-> "spam"] >>
    /\ latest["910111111111"] = "remove"
    /\ latest["12"] = "add"

\* ----------------------------------------------------- reading the routing

Arrived == event.arrived

\* handleMessage returns before it reads the text any further.
Ignored ==
    event.msg.IsFromMe \/ event.msg.IsGroup \/ event.msg.text = NoText

\* The text is classified as a verification token and there is a handler.
VerificationMessage ==
    client.verifyHandler /\ ~IsVerificationToken(event.msg.text).nil

Went(stage) == \E i \in DOMAIN routed.stages : routed.stages[i] = stage

\* The sender passes the access control.
Allowed ==
    \/ event.msg.Sender \in client.whitelist
    \/ (Len(event.msg.Sender) >= 2 /\ event.msg.Sender[1] = "9"
        /\ event.msg.Sender[2] = "1")

GateOrder ==
    IF blacklist
    THEN <<"classify", "blacklist", "lookup", "verify", "sign", "post">>
    ELSE <<"classify", "lookup", "verify", "sign", "post">>

IsPrefix(a, b) == Len(a) <= Len(b) /\ SubSeq(b, 1, Len(a)) = a

LastStep == out.trace[Len(out.trace)]

\* The sender's digits are those of the verified mobile claim, or the sender
\* is a devops number.
IsDevOps == normalizePhone(in.sender) \in devOpsNumbers
PhoneMatched ==
    \/ normalizePhone(in.sender) = normalizePhone(in.body.mobile)
    \/ IsDevOps

\* C31: within one message the gates run in the order blacklist check,
\* tenant resolution, signature and expiry verification, phone match,
\* callback dispatch; a gate runs only when every earlier gate has passed, a
\* callback is dispatched only when all of them have, and a rejection at a
\* gate is the last thing the flow does.
C31_GateOrder ==
    Handled
    => /\ IsPrefix(out.trace, GateOrder)
       /\ Reached("lookup") => NotBlacklisted
       /\ Reached("verify") => (NotBlacklisted /\ TenantKnown)
       /\ Reached("sign")
          => (NotBlacklisted /\ TenantKnown /\ out.verifyErr = "" /\ TenantSigned
              /\ PhoneMatched)
       /\ Reached("post") => in.env.sign = "ok"
       /\ out.callbacks # <<>> => Reached("post")
       /\ out.reply = messages.Blacklisted => LastStep = "blacklist"
       /\ out.reply = messages.Expired => LastStep = "verify"
       /\ out.reply = messages.PhoneMismatch
          => (LastStep = "verify" /\ out.verifyErr = "")
       /\ out.reply = messages.Success => out.trace = GateOrder
       /\ (out.reply = messages.Error /\ ~Reached("post"))
          => \/ LastStep = "blacklist" /\ in.env.bl = "error"
             \/ LastStep = "lookup" /\ ~TenantKnown
             \/ LastStep = "sign" /\ in.env.sign # "ok"

\* C31 happens: a handler with a blacklist takes a message through every
\* gate to the callback.
C31_Witness ==
    /\ Handled
    /\ blacklist
    /\ out.trace = GateOrder
    /\ out.reply = messages.Success
    /\ Len(out.callbacks) = 1

\* C32: every token the full verification accepts carries an exp claim that
\* is later than the time of the verification; a token without exp is
\* rejected and reaches no callback.
C32_ExpiryRequired ==
    (Handled /\ Reached("verify") /\ out.verifyErr = "")
    => (in.body.exp # NoExp /\ now < in.body.exp)

\* C33: the audience of every callback token is the tenant named by the
\* inbound app_name, and the inbound token was signed with the key
\* registered for that name; a token signed with the key of one registered
\* tenant that names another registered tenant gets no callback and no
\* callback token.
C33_TenantIsolation ==
    Handled
    => /\ out.callbacks # <<>>
          => /\ GetClaim(out.jwt, "aud") = <<in.body.app_name>>
             /\ in.body.app_name \in DOMAIN Apps
             /\ in.body.sig = Apps[in.body.app_name]
             /\ \A i \in DOMAIN out.callbacks :
                  out.callbacks[i].authorization = out.jwt
       /\ (/\ in.body.kind = "jwt"
           /\ in.body.app_name \in DOMAIN Apps
           /\ in.body.sig \in TenantKeys \ {Apps[in.body.app_name]})
          => (out.callbacks = <<>> /\ out.wire = <<>> /\ out.jwt = NoToken)

\* C33 happens: tenant B's token is verified with B's key and the callback
\* token names B.
C33_Witness ==
    /\ Handled
    /\ in.body.app_name = "appB"
    /\ in.body.sig = "kB"
    /\ Len(out.callbacks) = 1
    /\ GetClaim(out.jwt, "aud") = <<"appB">>

\* C34: a sender in the devops set who is blacklisted gets the blocked
\* reply; a devops sender whose token names an unknown tenant, is wrongly
\* signed or is expired is rejected; in all these cases there is no
\* callback.  A devops sender whose number differs from the mobile claim of
\* a valid token goes on to the callback.
C34_OverrideOnlyPhoneGate ==
    (Handled /\ IsDevOps /\ out.trace # <<"classify">>)
    => /\ (blacklist /\ in.env.bl = "blocked")
          => (out.reply = messages.Blacklisted /\ out.callbacks = <<>>)
       /\ (NotBlacklisted /\ ~TenantKnown)
          => (out.reply = messages.Error /\ out.callbacks = <<>>)
       /\ (NotBlacklisted /\ TenantKnown /\ ~TenantSigned)
          => (out.reply = messages.Expired /\ out.callbacks = <<>>)
       /\ (NotBlacklisted /\ TenantKnown /\ in.body.exp # NoExp
                /\ ~(now < in.body.exp))
          => (out.reply = messages.Expired /\ out.callbacks = <<>>)
       /\ out.reply # messages.PhoneMismatch

\* C34 happens: a blacklisted devops sender presents a valid token of
\* another phone and gets the blocked reply.
C34_Witness ==
    /\ Handled
    /\ IsDevOps
    /\ blacklist
    /\ in.env.bl = "blocked"
    /\ TenantSigned
    /\ in.body.alg = "RS256"
    /\ normalizePhone(in.sender) # normalizePhone(in.body.mobile)
    /\ out.reply = messages.Blacklisted
    /\ out.callbacks = <<>>

\* C35: no step changes the handler (keys, devops set, blacklist
\* collaborator), and a token that was answered with success, handed to
\* Handle again by the same sender with the same collaborator answers at any
\* later time at which it has not expired, is answered with success and one
\* further callback, whose token carries the challenge_id of the inbound
\* token, as the first one did.
C35_MemorylessReplay ==
    [][ /\ handler' = handler
        /\ (phase' = "handled" /\ out'.reply = messages.Success)
           => \A t2 \in now'..MaxTime :
                (in'.body.exp = NoExp \/ t2 < in'.body.exp)
                => LET again == Handle(handler', in'.sender, in'.body, t2, in'.env)
                   IN  /\ again.reply = messages.Success
                       /\ Len(again.callbacks) = 1
                       /\ again.callbacks = out'.callbacks
                            \/ t2 # now'
                       /\ GetClaim(out'.jwt, "challenge_id") = in'.body.challenge_id
                       /\ GetClaim(again.jwt, "challenge_id") = in'.body.challenge_id
      ]_vars

\* ------------------------------------------------------- reading the buckets

\* A step in which Handle consulted the rate limiter.
Checked == phase = "idle" /\ phase' = "handled" /\ res'.asked

\* The timestamps of the sequence never decrease.
NonDecreasing(times) ==
    \A i \in 1..Len(times) : \A j \in i..Len(times) : times[i] <= times[j]

\* The replies to a text that is not a login command or carries a bad key.
Rejections ==
    {oauthReplies.InvalidFormat, oauthReplies.InvalidEncoding,
     oauthReplies.InvalidLength}

\* C37: the history starts empty; after any sequence of admission checks at
\* non-decreasing times every stored bucket holds at most rateLimit
\* timestamps in non-decreasing order; immediately after a check at time
\* now every timestamp t kept for the checked sender satisfies
\* now - Window < t <= now; a bucket comes into being only by a check of
\* its own sender, and no bucket ever disappears.
C37_BucketInvariant ==
    /\ DOMAIN history = {}
    /\ [][ /\ \A p \in DOMAIN history' :
                /\ Len(history'[p]) <= rateLimit
                /\ NonDecreasing(history'[p])
           /\ IF Checked
              THEN /\ DOMAIN history' = DOMAIN history \cup {cmd'.sender}
                   /\ \A i \in 1..Len(history'[cmd'.sender]) :
                        /\ clock' - Window < history'[cmd'.sender][i]
                        /\ history'[cmd'.sender][i] <= clock'
              ELSE DOMAIN history' = DOMAIN history
         ]_vars

\* C37 happens: a check made a full window after the first instant was
\* granted and left its sender a bucket holding the current time alone,
\* while the bucket of another sender, unchecked since, is full of
\* timestamps that have left the window.
C37_Witness ==
    /\ Handled
    /\ res.asked
    /\ clock >= Window
    /\ Bucket(history, cmd.sender) = <<clock>>
    /\ \E p \in DOMAIN history \ {cmd.sender} :
         /\ Len(history[p]) = rateLimit
         /\ \A i \in 1..Len(history[p]) : history[p][i] <= clock - Window

\* C38: a text that Handle rejects as malformed or for its key does not
\* reach the rate limiter and leaves every bucket and every sender's
\* admissions as they were; the throttling reply is given only to a sender
\* whose rateLimit admissions within the window were all granted to
\* commands that passed the validation.
C38_RejectionsCostNothing ==
    [][ /\ (phase = "idle" /\ phase' = "handled" /\ res'.reply \in Rejections)
           => /\ ~res'.asked
              /\ history' = history
              /\ grants' = grants
        /\ (phase = "idle" /\ phase' = "handled"
              /\ res'.reply = oauthReplies.TooMany)
           => /\ Len(Recent(grants[cmd'.sender], clock)) = rateLimit
              /\ Recent(Bucket(history, cmd'.sender), clock)
                   = Recent(grants[cmd'.sender], clock)
      ]_vars

\* C38 happens: a command whose key carries the padding character is
\* rejected while its sender is one admission short of the limit, all
\* within the window.
C38_Witness ==
    /\ Handled
    /\ res.reply = oauthReplies.InvalidEncoding
    /\ ~res.asked
    /\ Len(Recent(Bucket(history, cmd.sender), clock)) = rateLimit - 1
    /\ rateLimit > 1

\* ---------------------------------------------------- reading the identities

\* The digits of a string, in their order.
RECURSIVE DigitString(_)
DigitString(s) ==
    IF s = <<>> THEN <<>>
    ELSE (IF Head(s) \in Digits THEN <<Head(s)>> ELSE <<>>) \o DigitString(Tail(s))

\* The identities Handle meets: senders, mobile claims, devops entries.
Identities ==
    SenderPhones \cup MobileClaims
    \cup UNION {{cfg[i] : i \in 1..Len(cfg)} : cfg \in DevOpsConfigs}

\* C39: normalizePhone returns the digits of its argument in their order
\* and is idempotent; the devops set holds the digit strings of the
\* configured numbers; the blacklist is asked about the digit string of the
\* sender, which is also the user_id of the callback token; and a sender
\* whose token verified passes the phone gate exactly when its digit string
\* equals that of the mobile claim or that of a configured devops number,
\* whatever other characters the three carry.
C39_Normalization ==
    /\ \A p \in Identities :
         /\ normalizePhone(p) = DigitString(p)
         /\ normalizePhone(normalizePhone(p)) = normalizePhone(p)
    /\ \E cfg \in DevOpsConfigs :
         devOpsNumbers = {DigitString(cfg[i]) : i \in 1..Len(cfg)}
    /\ (Handled /\ Reached("blacklist"))
         => BlacklistKey(in.sender) = DigitString(in.sender)
    /\ (Handled /\ out.callbacks # <<>>)
         => GetClaim(out.jwt, "user_id") = DigitString(in.sender)
    /\ (Handled /\ Reached("verify") /\ out.verifyErr = "")
         => (out.reply # messages.PhoneMismatch
               <=> \/ DigitString(in.sender) = DigitString(in.body.mobile)
                   \/ DigitString(in.sender) \in devOpsNumbers)

\* C39 happens: a sender that is no devops number passes the phone gate
\* with a mobile claim that differs from it by a plus sign, and the
\* callback is dispatched.
C39_Witness ==
    /\ Handled
    /\ out.reply = messages.Success
    /\ in.sender # in.body.mobile
    /\ DigitString(in.sender) = DigitString(in.body.mobile)
    /\ DigitString(in.sender) \notin devOpsNumbers
    /\ out.callbacks # <<>>

\* --------------------------------------------------------- reading the flows

\* The collaborator answers with which the callback succeeds.
AllPass == [bl |-> "clear", sign |-> "ok", http |-> [neterr |-> FALSE, chain |-> <<200>>]]

\* What Handle makes of the flow's message when it runs alone.
Alone(w) == Handle(handler, flow[w].sender, flow[w].body, flow[w].t, flow[w].env)

====
